---- MODULE Spec2Model ----
(***************************************************************************)
(* Usage-based billing spike: the realtime rollup handler                  *)
(* (src/handlers/rollup-realtime-usage.js), the query engine and the       *)
(* counter store it talks to, the Firehose transform handler, the usage    *)
(* handler (src/handlers/get-usage.js), the billing query of the command   *)
(* line tool and the older daily rollup handler.                           *)
(*                                                                         *)
(* One action models the code a handler runs between two awaits together   *)
(* with the effect of the call it awaits.                                  *)
(***************************************************************************)
EXTENDS Integers, Sequences, FiniteSets, TLC

VARIABLES
    run,      \* per invocation of the rollup handler: its position and locals
    athena,   \* the query engine: the sequence of query executions it holds
    store,    \* the counter store (DynamoDB table): key -> item
    store0,   \* history: the store before any invocation
    clock,    \* the time new Date() reads, advanced by every store write
    puts,     \* history: per invocation, the PutItem calls it made, in order
    xf,       \* the invocation of the transform handler: its batch and output
    call,     \* one application of a function of the transform: arguments and result
    rd        \* the invocation of the usage handler: its parameters and response

rollupVars == <<run, athena, store, store0, clock, puts>>
vars == <<run, athena, store, store0, clock, puts, xf, call, rd>>

(***************************************************************************)
(* Bounds of the model                                                     *)
(***************************************************************************)
MaxAttempts == 3   \* the value given to waitForQueryResults' maxAttempts
MaxRows == 3       \* most data rows a query result holds
PageSize == 3      \* rows of one GetQueryResults page, the header row included

Runs == {"run1", "run2"}

\* event.date: absent, or a date string, held as its tokens between '-'
NoDate == <<>>
Dates == {<<"2025", "10", "05">>, <<"2025", "10", "06">>}
\* event.queryType: "" is absent
QueryTypes == {"", "daily_usage", "billing", "cache_discount"}

Undefined == "<undefined>"   \* a cell without VarCharValue, a missing element

(***************************************************************************)
(* Pure helpers of the handler                                             *)
(***************************************************************************)
\* Array.prototype.join('-') of the tokens of a date string
RECURSIVE JoinDash(_)
JoinDash(toks) ==
    IF Len(toks) = 0 THEN ""
    ELSE IF Len(toks) = 1 THEN toks[1]
    ELSE toks[1] \o "-" \o JoinDash(Tail(toks))

\* element i of an array, undefined past its end
At(arr, i) == IF i <= Len(arr) THEN arr[i] ELSE Undefined

\* parseDateComponents: const [year, month, day] = dateStr.split('-')
parseDateComponents(dateToks) ==
    [year |-> At(dateToks, 1), month |-> At(dateToks, 2), day |-> At(dateToks, 3)]

\* mutant: the key's date does not follow the target date
TimestampFixed(dateToks) == "T00:00:00Z"

\* `${targetDate}T00:00:00Z`
TimestampOf(dateToks) == JoinDash(dateToks) \o "T00:00:00Z"

\* event.queryType || 'daily_usage'
QueryTypeOf(qt) == IF qt = "" THEN "daily_usage" ELSE qt

\* the switch on queryType: which query builder is used
QueryKind(queryType) ==
    CASE queryType = "billing" -> "billing"
      [] queryType = "cache_discount" -> "cache_discount"
      [] OTHER -> "daily_usage"

BuildQuery(queryType, c) ==
    [kind |-> QueryKind(queryType), year |-> c.year, month |-> c.month, day |-> c.day]

\* mutant: every query type is stored
ShouldStoreAlways(queryType) == TRUE

\* if (queryType === 'daily_usage')
ShouldStore(queryType) == queryType = "daily_usage"

\* parseInt(v, 10): the integer the text starts with, NaN without one
ParseInt10(v) ==
    CASE v = "0" -> [nan |-> FALSE, n |-> 0]
      [] v = "1" -> [nan |-> FALSE, n |-> 1]
      [] v = "2" -> [nan |-> FALSE, n |-> 2]
      [] v = "3" -> [nan |-> FALSE, n |-> 3]
      [] v = "4" -> [nan |-> FALSE, n |-> 4]
      [] v = "5" -> [nan |-> FALSE, n |-> 5]
      [] v = "7" -> [nan |-> FALSE, n |-> 7]
      [] v = "30" -> [nan |-> FALSE, n |-> 30]
      [] v = "70" -> [nan |-> FALSE, n |-> 70]
      [] v = "300" -> [nan |-> FALSE, n |-> 300]
      [] v = "700" -> [nan |-> FALSE, n |-> 700]
      [] v = "0.253" -> [nan |-> FALSE, n |-> 0]
      [] v = "1.5" -> [nan |-> FALSE, n |-> 1]
      [] v = "0.0003" -> [nan |-> FALSE, n |-> 0]
      [] v = "0.0007" -> [nan |-> FALSE, n |-> 0]
      [] v = "64.00" -> [nan |-> FALSE, n |-> 64]
      [] OTHER -> [nan |-> TRUE]

\* parseFloat(v), in thousandths (the query rounds the average to 3 decimals)
ParseFloatMilli(v) ==
    CASE v = "0.253" -> [nan |-> FALSE, n |-> 253]
      [] v = "1.5" -> [nan |-> FALSE, n |-> 1500]
      [] v = "64.00" -> [nan |-> FALSE, n |-> 64000]
      [] ParseInt10(v).nan -> [nan |-> TRUE]
      [] OTHER -> [nan |-> FALSE, n |-> 1000 * ParseInt10(v).n]

\* x || 0 of a number: NaN and 0 are falsy
OrZero(p) == IF p.nan THEN 0 ELSE p.n

\* the metrics object handed to storeUsageMetrics, from one result row's cells
MetricsOf(data) ==
    [request_count |-> OrZero(ParseInt10(At(data, 2))),
     total_bytes_sent |-> OrZero(ParseInt10(At(data, 3))),
     total_bytes_received |-> OrZero(ParseInt10(At(data, 4))),
     avg_response_time_ms |-> OrZero(ParseFloatMilli(At(data, 5))),
     successful_requests |-> OrZero(ParseInt10(At(data, 6))),
     error_requests |-> OrZero(ParseInt10(At(data, 7))),
     cache_hits |-> OrZero(ParseInt10(At(data, 8))),
     cache_misses |-> OrZero(ParseInt10(At(data, 9))),
     countries_served |-> OrZero(ParseInt10(At(data, 10)))]

Counters ==
    {"request_count", "total_bytes_sent", "total_bytes_received",
     "avg_response_time_ms", "successful_requests", "error_requests",
     "cache_hits", "cache_misses", "countries_served"}

\* mutant: the byte counters are written under shorter names
ItemOfShortNames(apiKey, timestamp, metrics, now) ==
    [api_key |-> apiKey,
     date |-> timestamp,
     request_count |-> metrics.request_count,
     bytes_sent |-> metrics.total_bytes_sent,
     bytes_received |-> metrics.total_bytes_received,
     avg_response_time_ms |-> metrics.avg_response_time_ms,
     successful_requests |-> metrics.successful_requests,
     error_requests |-> metrics.error_requests,
     cache_hits |-> metrics.cache_hits,
     cache_misses |-> metrics.cache_misses,
     countries_served |-> metrics.countries_served,
     last_updated |-> now]

\* the Item of the PutItemCommand
ItemOf(apiKey, timestamp, metrics, now) ==
    [api_key |-> apiKey,
     date |-> timestamp,
     request_count |-> metrics.request_count,
     total_bytes_sent |-> metrics.total_bytes_sent,
     total_bytes_received |-> metrics.total_bytes_received,
     avg_response_time_ms |-> metrics.avg_response_time_ms,
     successful_requests |-> metrics.successful_requests,
     error_requests |-> metrics.error_requests,
     cache_hits |-> metrics.cache_hits,
     cache_misses |-> metrics.cache_misses,
     countries_served |-> metrics.countries_served,
     last_updated |-> now]

KeyOf(item) == <<item.api_key, item.date>>

(***************************************************************************)
(* The query engine (Athena), at its interface                             *)
(***************************************************************************)
KeySeq == <<"keyA", "keyB", "keyC", "keyD", "keyE">>

\* the cells of one result row after its api_key, per query and variant
Cells(kind, v) ==
    CASE kind = "billing" ->
           IF v = 0 THEN <<"3", "0.0003", "0.0003", "0.0000", "0.0003">>
           ELSE <<"7", "0.0007", "0.0007", "0.0001", "0.0008">>
      [] kind = "cache_discount" ->
           IF v = 0 THEN <<"3", "0.0003", "0.0000", "64.00">>
           ELSE <<"7", "0.0007", "0.0001", "0.00">>
      [] kind = "legacy" ->
           CASE v = 0 -> <<"1", Undefined, Undefined>>
             [] v = 1 -> <<"7", "700", "1.5">>
             [] OTHER -> <<"3", "300", "0.253">>
      [] OTHER ->
           CASE v = 0 -> <<"3", "300", "30", "0.253", "3", "0", "2", "1", "1">>
             [] v = 1 -> <<"7", "700", "70", "1.5", "5", "2", "4", "3", "2">>
             [] OTHER -> <<"1", Undefined, Undefined, Undefined, "0", "1", "0", "0", "1">>

\* the results a query of this kind can have: one row per api_key (GROUP BY)
ResultSets(kind) ==
    { [i \in 1..n |-> <<KeySeq[i]>> \o Cells(kind, (i + v) % 3)] :
        n \in 0..MaxRows, v \in 0..1 }

HeaderRow(kind) == <<"api_key", kind>>

Terminal == {"SUCCEEDED", "FAILED", "CANCELLED"}

\* the states a query execution in state cur may have reached by the next look
\* (RUNNING stands for both QUEUED and RUNNING: the handler treats them alike)
EngineStates(cur) ==
    IF cur \in Terminal THEN {cur} ELSE {"RUNNING"} \cup Terminal

\* a query execution as the engine holds it; owner is the invocation that started it
NewExecution(query, r) == [query |-> query, state |-> "RUNNING", rows |-> <<>>, owner |-> r]

Min(a, b) == IF a <= b THEN a ELSE b

\* GetQueryResults without NextToken: the first page, header row first
FirstPage(exec) ==
    LET all == <<HeaderRow(exec.query.kind)>> \o exec.rows
    IN  SubSeq(all, 1, Min(PageSize, Len(all)))

(***************************************************************************)
(* The counter store (DynamoDB), at its interface                          *)
(***************************************************************************)
NoItem == [api_key |-> "", date |-> ""]

Lookup(st, key) == IF key \in DOMAIN st THEN st[key] ELSE NoItem

\* mutant: UpdateItem with ADD on every counter and SET on last_updated
UpdateItemAdd(st, item) ==
    LET old == Lookup(st, KeyOf(item))
        new == IF old = NoItem THEN item
               ELSE [f \in DOMAIN item |->
                       IF f \in Counters THEN old[f] + item[f] ELSE item[f]]
    IN  [k \in DOMAIN st \cup {KeyOf(item)} |-> IF k = KeyOf(item) THEN new ELSE st[k]]

\* mutant: a conditional put that keeps the item a key already holds
PutItemIfAbsent(st, item) ==
    IF KeyOf(item) \in DOMAIN st THEN st
    ELSE [k \in DOMAIN st \cup {KeyOf(item)} |-> IF k = KeyOf(item) THEN item ELSE st[k]]

\* PutItem: the item replaces whatever the key held
PutItem(st, item) ==
    [k \in DOMAIN st \cup {KeyOf(item)} |-> IF k = KeyOf(item) THEN item ELSE st[k]]

EmptyStore == [k \in {} |-> NoItem]

\* an aggregate an earlier day's rollup left in the table
PriorItem ==
    ItemOf("keyA", "2025-10-05T00:00:00Z",
           [request_count |-> 5, total_bytes_sent |-> 70, total_bytes_received |-> 30,
            avg_response_time_ms |-> 1500, successful_requests |-> 4,
            error_requests |-> 1, cache_hits |-> 2, cache_misses |-> 3,
            countries_served |-> 1], 0)

(***************************************************************************)
(* The rollup handler                                                      *)
(***************************************************************************)
NoQuery == [kind |-> "", year |-> "", month |-> "", day |-> ""]
NoResponse == [statusCode |-> 0]

\* an invocation the trigger has asked for and the handler has not begun
PendingRun ==
    [pc |-> "Pending", targetDate |-> NoDate, timestamp |-> "", queryType |-> "",
     query |-> NoQuery, queryExecutionId |-> 0, i |-> 0, dataRows |-> <<>>, idx |-> 0,
     response |-> NoResponse, failedFrom |-> ""]

\* mutant: a failed or timed out query is submitted again
OnErrorRetry(rec, message) ==
    IF message \in {"Query failed", "Query timed out"}
    THEN [rec EXCEPT !.pc = "Starting", !.i = 0]
    ELSE [PendingRun EXCEPT !.pc = "Failed", !.failedFrom = rec.pc,
                            !.response = [statusCode |-> 0, error |-> message]]

\* catch (error) { console.error(...); throw error }: the invocation ends, failed,
\* and its locals are gone
OnError(rec, message) ==
    [PendingRun EXCEPT !.pc = "Failed", !.failedFrom = rec.pc,
                       !.response = [statusCode |-> 0, error |-> message]]

\* the value null of a decoded record
Null == [t |-> "null", m |-> 0, e |-> 0, s |-> <<>>]

\* no function applied
NoCall == [op |-> "none", name |-> "", text |-> <<>>, done |-> FALSE, value |-> Null]

\* no invocation of the usage handler
NoRead ==
    [pc |-> "none",
     event |-> [api_key |-> "<undefined>", date |-> "<undefined>", month |-> "<undefined>"],
     apiKey |-> "", datePrefix |-> "", queries |-> 0,
     response |-> [statusCode |-> 0]]

\* no transform invocation
NoTransform == [pc |-> "none", records |-> <<>>, next |-> 0, output |-> <<>>, result |-> <<>>]

Init ==
    /\ run = [r \in Runs |-> PendingRun]
    /\ athena = <<>>
    /\ store \in {EmptyStore, PutItem(EmptyStore, PriorItem)}
    /\ store0 = store
    /\ clock = 1
    /\ puts = [r \in Runs |-> <<>>]
    /\ xf = NoTransform
    /\ call = NoCall
    /\ rd = NoRead

\* handler lines 243-273 and executeAthenaQuery up to its first await, on the
\* event the trigger delivers; getYesterdayDate() reads the day before today
Begin(r) ==
    /\ run[r].pc = "Pending"
    /\ \E date \in Dates \cup {NoDate}, qt \in QueryTypes, yesterday \in Dates :
         LET targetDate == IF date = NoDate THEN yesterday ELSE date
             queryType == QueryTypeOf(qt)
             query == BuildQuery(queryType, parseDateComponents(targetDate))
         IN  run' = [run EXCEPT ![r] = [@ EXCEPT !.pc = "Starting",
                                                 !.targetDate = targetDate,
                                                 !.timestamp = TimestampOf(targetDate),
                                                 !.queryType = queryType,
                                                 !.query = query]]
    /\ UNCHANGED <<xf, call, rd, athena, store, store0, clock, puts>>

\* the scheduler triggers a run only when no other run is under way
BeginSerial(r) ==
    /\ \A o \in Runs \ {r} : run[o].pc \in {"Pending", "Complete", "Failed"}
    /\ Begin(r)

\* StartQueryExecution answers: an execution id, or the call is rejected
StartResponse(r) ==
    /\ run[r].pc = "Starting"
    /\ \/ /\ athena' = Append(athena, NewExecution(run[r].query, r))
          /\ run' = [run EXCEPT ![r] = [@ EXCEPT !.pc = "Polling",
                                                 !.queryExecutionId = Len(athena) + 1,
                                                 !.i = 0]]
       \/ /\ run' = [run EXCEPT ![r] = OnError(@, "StartQueryExecution rejected")]
          /\ UNCHANGED athena
    /\ UNCHANGED <<xf, call, rd, store, store0, clock, puts>>

\* mutant: the loop bound is off by one
LoopCondOffByOne(i, maxAttempts) == i <= maxAttempts

\* for (let i = 0; i < maxAttempts; i++)
LoopCond(i, maxAttempts) == i < maxAttempts

\* mutant: FAILED and CANCELLED end the wait like SUCCEEDED
AfterPollIgnoreFailure(rec, state) ==
    IF state \in Terminal THEN [rec EXCEPT !.pc = "Fetching", !.i = 0]
    ELSE [rec EXCEPT !.i = @ + 1]

\* mutant: the wait ends on the first poll the query has not failed at
AfterPollNoWait(rec, state) ==
    IF state = "FAILED" \/ state = "CANCELLED" THEN OnError(rec, "Query failed")
    ELSE [rec EXCEPT !.pc = "Fetching", !.i = 0]

\* waitForQueryResults, what it does with the state one poll returned; the loop
\* counter is gone once the function returns
AfterPoll(rec, state) ==
    IF state = "SUCCEEDED" THEN [rec EXCEPT !.pc = "Fetching", !.i = 0]
    ELSE IF state = "FAILED" \/ state = "CANCELLED" THEN OnError(rec, "Query failed")
    ELSE [rec EXCEPT !.i = @ + 1]

\* one iteration of the polling loop: GetQueryExecution, then the 2 s sleep
\* unless the state ends the wait
Poll(r) ==
    /\ run[r].pc = "Polling"
    /\ LoopCond(run[r].i, MaxAttempts)
    /\ LET id == run[r].queryExecutionId
       IN  \/ \E state \in EngineStates(athena[id].state) :
                \E rows \in IF state = "SUCCEEDED" /\ athena[id].state # "SUCCEEDED"
                            THEN ResultSets(athena[id].query.kind)
                            ELSE {athena[id].rows} :
                  /\ athena' = [athena EXCEPT ![id] = [@ EXCEPT !.state = state,
                                                               !.rows = rows]]
                  /\ run' = [run EXCEPT ![r] = AfterPoll(@, state)]
           \/ /\ run' = [run EXCEPT ![r] = OnError(@, "GetQueryExecution rejected")]
              /\ UNCHANGED athena
    /\ UNCHANGED <<xf, call, rd, store, store0, clock, puts>>

\* the loop ends without a terminal state: throw new Error('Query timed out')
TimedOut(r) ==
    /\ run[r].pc = "Polling"
    /\ ~LoopCond(run[r].i, MaxAttempts)
    /\ run' = [run EXCEPT ![r] = OnError(@, "Query timed out")]
    /\ UNCHANGED <<xf, call, rd, athena, store, store0, clock, puts>>

\* GetQueryResults, then rows.slice(1)
Fetch(r) ==
    /\ run[r].pc = "Fetching"
    /\ \/ LET rows == FirstPage(athena[run[r].queryExecutionId])
          IN  run' = [run EXCEPT ![r] = [@ EXCEPT !.pc = "Merging",
                                                  !.dataRows = Tail(rows),
                                                  !.idx = 1]]
       \/ run' = [run EXCEPT ![r] = OnError(@, "GetQueryResults rejected")]
    /\ UNCHANGED <<xf, call, rd, athena, store, store0, clock, puts>>

\* the for loop over dataRows still has a row to store
MoreToStore(rec) == ShouldStore(rec.queryType) /\ rec.idx <= Len(rec.dataRows)

\* one iteration of for (const row of dataRows): storeUsageMetrics, whose
\* PutItem the store applies or rejects
Merge(r) ==
    /\ run[r].pc = "Merging"
    /\ MoreToStore(run[r])
    /\ LET data == run[r].dataRows[run[r].idx]
           item == ItemOf(At(data, 1), run[r].timestamp, MetricsOf(data), clock)
           prior == Lookup(store, KeyOf(item))
       IN  \/ /\ store' = PutItem(store, item)
              /\ run' = [run EXCEPT ![r] = [@ EXCEPT !.idx = @ + 1]]
              /\ puts' = [puts EXCEPT ![r] = Append(@,
                   [item |-> item, prior |-> prior,
                    after |-> Lookup(store', KeyOf(item)), ok |-> TRUE])]
           \/ /\ run' = [run EXCEPT ![r] = OnError(@, "PutItem rejected")]
              /\ puts' = [puts EXCEPT ![r] = Append(@,
                   [item |-> item, prior |-> prior, after |-> prior, ok |-> FALSE])]
              /\ UNCHANGED store
    /\ clock' = clock + 1
    /\ UNCHANGED <<xf, call, rd, athena, store0>>

SampleCap == 10

\* results.length <= 10 ? results : results.slice(0, 10)
Sample(results) ==
    IF Len(results) <= SampleCap THEN results ELSE SubSeq(results, 1, SampleCap)

\* the response of a run that got through
ResponseOf(rec) ==
    [statusCode |-> 200,
     date |-> JoinDash(rec.targetDate),
     timestamp |-> rec.timestamp,
     queryType |-> rec.queryType,
     apiKeysProcessed |-> Len(rec.dataRows),
     results |-> Sample(rec.dataRows)]

\* the loop is over (or skipped): build the response and return it
Finish(r) ==
    /\ run[r].pc = "Merging"
    /\ ~MoreToStore(run[r])
    /\ run' = [run EXCEPT ![r] = [PendingRun EXCEPT !.pc = "Complete",
                                                    !.response = ResponseOf(run[r])]]
    /\ UNCHANGED <<xf, call, rd, athena, store, store0, clock, puts>>

Next ==
    \E r \in Runs :
        \/ Begin(r)
        \/ StartResponse(r)
        \/ Poll(r)
        \/ TimedOut(r)
        \/ Fetch(r)
        \/ Merge(r)
        \/ Finish(r)

Spec == Init /\ [][Next]_vars

NextSerial ==
    \E r \in Runs :
        \/ BeginSerial(r)
        \/ StartResponse(r)
        \/ Poll(r)
        \/ TimedOut(r)
        \/ Fetch(r)
        \/ Merge(r)
        \/ Finish(r)

SerialSpec == Init /\ [][NextSerial]_vars

(***************************************************************************)
(* The Firehose transform handler (transform-realtime-logs.js)             *)
(* Texts are sequences of one-character strings.                           *)
(***************************************************************************)
\* CloudFront real-time log field names, in the order of the log line
FIELD_NAMES ==
    <<"timestamp", "c_ip", "s_ip", "time_to_first_byte", "sc_status", "sc_bytes",
      "cs_method", "cs_protocol", "cs_host", "cs_uri_stem", "cs_uri_query", "cs_bytes",
      "x_edge_location", "x_edge_request_id", "x_host_header", "time_taken",
      "cs_protocol_version", "c_ip_version", "cs_user_agent", "cs_referer", "cs_cookie",
      "x_edge_response_result_type", "x_forwarded_for", "ssl_protocol", "ssl_cipher",
      "x_edge_result_type", "fle_encrypted_fields", "fle_status", "sc_content_type",
      "sc_content_len", "sc_range_start", "sc_range_end", "c_port",
      "x_edge_detailed_result_type", "c_country", "cs_accept_encoding", "cs_accept",
      "cache_behavior_path_pattern", "cs_headers", "cs_header_names", "cs_headers_count",
      "origin_fbl", "origin_lbl", "asn">>

IntegerFields ==
    {"sc_status", "sc_bytes", "cs_bytes", "sc_content_len", "sc_range_start",
     "sc_range_end", "c_port", "fle_encrypted_fields", "cs_headers_count", "asn"}

FloatFields == {"time_to_first_byte", "time_taken", "origin_fbl", "origin_lbl"}

\* JSON values: null (above), NaN, a decimal number m / 10^e, a string
NaN == [t |-> "NaN", m |-> 0, e |-> 0, s |-> <<>>]
Str(s) == [t |-> "str", m |-> 0, e |-> 0, s |-> s]

RECURSIVE Num(_, _)
\* the number m / 10^e, its fraction without trailing zeros
Num(m, e) ==
    IF e > 0 /\ m % 10 = 0 THEN Num(m \div 10, e - 1)
    ELSE [t |-> "num", m |-> m, e |-> e, s |-> <<>>]

RECURSIVE Pow10(_)
Pow10(e) == IF e = 0 THEN 1 ELSE 10 * Pow10(e - 1)

Whitespace == {" ", "\t", "\n", "\r"}
Digits == <<"0", "1", "2", "3", "4", "5", "6", "7", "8", "9">>
IsDigit(c) == \E d \in DOMAIN Digits : Digits[d] = c
DigitVal(c) == (CHOOSE d \in DOMAIN Digits : Digits[d] = c) - 1

RECURSIVE TrimStart(_)
TrimStart(s) == IF s # <<>> /\ Head(s) \in Whitespace THEN TrimStart(Tail(s)) ELSE s

RECURSIVE TrimEnd(_)
TrimEnd(s) ==
    IF s # <<>> /\ s[Len(s)] \in Whitespace THEN TrimEnd(SubSeq(s, 1, Len(s) - 1)) ELSE s

\* String.prototype.trim
Trim(s) == TrimEnd(TrimStart(s))

RECURSIVE DigitRun(_)
\* the digits a text starts with
DigitRun(s) == IF s # <<>> /\ IsDigit(Head(s)) THEN <<Head(s)>> \o DigitRun(Tail(s)) ELSE <<>>

RECURSIVE DigitsValue(_)
DigitsValue(ds) ==
    IF ds = <<>> THEN 0 ELSE 10 * DigitsValue(SubSeq(ds, 1, Len(ds) - 1)) + DigitVal(ds[Len(ds)])

\* a text after its sign, and the sign
Unsigned(s) == IF s # <<>> /\ Head(s) \in {"+", "-"} THEN Tail(s) ELSE s
SignOf(s) == IF s # <<>> /\ Head(s) = "-" THEN -1 ELSE 1

\* parseInt(value, 10): leading whitespace, a sign, then the digits it starts
\* with; NaN without a digit
parseInt(value) ==
    LET body == Unsigned(TrimStart(value))
        ds == DigitRun(body)
    IN  IF ds = <<>> THEN NaN ELSE Num(SignOf(TrimStart(value)) * DigitsValue(ds), 0)

\* parseFloat(value): as parseInt, with a fraction after '.' (no exponent here)
parseFloat(value) ==
    LET body == Unsigned(TrimStart(value))
        ds == DigitRun(body)
        rest == SubSeq(body, Len(ds) + 1, Len(body))
        fs == IF rest # <<>> /\ Head(rest) = "." THEN DigitRun(Tail(rest)) ELSE <<>>
    IN  IF ds = <<>> /\ fs = <<>> THEN NaN
        ELSE Num(SignOf(TrimStart(value)) * DigitsValue(ds \o fs), Len(fs))

\* the numbers of milliseconds m below 10000 for which the binary64 product
\* parseFloat("s.mmm") * 1000 of the seconds m / 1000 lies below m (1.005 * 1000 is
\* 1004.9999999999999); for the other m below 10000, and for the larger values
\* the model reads, the product is m itself
ShortProducts ==
    {1001, 1003, 1005, 1007, 1009, 1011, 1013, 1015, 1017, 1019, 1021, 1023, 2002, 2006,
     2010, 2014, 2018, 2022, 2026, 2030, 2034, 2038, 2042, 2046, 4004, 4007, 4012, 4015,
     4020, 4023, 4028, 4031, 4036, 4039, 4044, 4047, 4052, 4055, 4060, 4063, 4068, 4071,
     4076, 4079, 4084, 4087, 4092, 4095, 8001, 8008, 8011, 8014, 8017, 8024, 8027, 8030,
     8033, 8040, 8043, 8046, 8049, 8056, 8059, 8062, 8065, 8072, 8075, 8078, 8081, 8088,
     8091, 8094, 8097, 8104, 8107, 8110, 8120, 8123, 8126, 8133, 8136, 8139, 8142, 8149,
     8152, 8155, 8158, 8165, 8168, 8171, 8174, 8181, 8184, 8187, 8190}

\* Math.floor(x * 1000) in binary64, for x of at most three decimals
FloorTimes1000(x) ==
    IF x.t = "NaN" THEN NaN
    ELSE LET exact == (x.m * 1000) \div Pow10(x.e)
         IN  IF x.e <= 3 /\ x.m * Pow10(3 - x.e) \in ShortProducts
             THEN Num(exact - 1, 0)
             ELSE Num(exact, 0)

\* mutant: only the empty token is absent, "-" is converted like any token
convertFieldTypeNoSentinel(fieldName, value) ==
    IF value = <<>> THEN Null
    ELSE IF fieldName \in IntegerFields THEN parseInt(value)
    ELSE IF fieldName = "timestamp" THEN FloorTimes1000(parseFloat(value))
    ELSE IF fieldName \in FloatFields THEN parseFloat(value)
    ELSE Str(value)

\* convertFieldType
convertFieldType(fieldName, value) ==
    IF value = <<>> \/ value = <<"-">> THEN Null
    ELSE IF fieldName \in IntegerFields THEN parseInt(value)
    ELSE IF fieldName = "timestamp" THEN FloorTimes1000(parseFloat(value))
    ELSE IF fieldName \in FloatFields THEN parseFloat(value)
    ELSE Str(value)

\* the lower case of a letter (the i flag of the pattern)
Lower(c) ==
    CASE c = "A" -> "a"
      [] c = "B" -> "b"
      [] c = "C" -> "c"
      [] c = "D" -> "d"
      [] c = "E" -> "e"
      [] c = "F" -> "f"
      [] c = "G" -> "g"
      [] c = "H" -> "h"
      [] c = "I" -> "i"
      [] c = "J" -> "j"
      [] c = "K" -> "k"
      [] c = "L" -> "l"
      [] c = "M" -> "m"
      [] c = "N" -> "n"
      [] c = "O" -> "o"
      [] c = "P" -> "p"
      [] c = "Q" -> "q"
      [] c = "R" -> "r"
      [] c = "S" -> "s"
      [] c = "T" -> "t"
      [] c = "U" -> "u"
      [] c = "V" -> "v"
      [] c = "W" -> "w"
      [] c = "X" -> "x"
      [] c = "Y" -> "y"
      [] c = "Z" -> "z"
      [] OTHER -> c

HeaderPattern == <<"x", "-", "a", "p", "i", "-", "k", "e", "y", ":">>

\* the pattern's literal part matches text s at position p, whatever the case
LiteralAt(s, p) ==
    /\ p + Len(HeaderPattern) - 1 <= Len(s)
    /\ \A k \in DOMAIN HeaderPattern : Lower(s[p + k - 1]) = HeaderPattern[k]

RECURSIVE ValueRun(_)
\* ([^%\n]+): the longest run without '%' and newline a text starts with
ValueRun(s) ==
    IF s # <<>> /\ Head(s) \notin {"%", "\n"} THEN <<Head(s)>> \o ValueRun(Tail(s)) ELSE <<>>

\* mutant: the header is looked for at the start of the blob only
MatchAtStart(s) ==
    {p \in {1} \cap (1..Len(s)) :
        /\ LiteralAt(s, p)
        /\ ValueRun(SubSeq(s, p + Len(HeaderPattern), Len(s))) # <<>>}

\* the positions of s at which /X-Api-Key:([^%\n]+)/i matches
MatchPositions(s) ==
    {p \in 1..Len(s) :
        /\ LiteralAt(s, p)
        /\ ValueRun(SubSeq(s, p + Len(HeaderPattern), Len(s))) # <<>>}

HexDigits ==
    <<"0", "1", "2", "3", "4", "5", "6", "7", "8", "9", "A", "B", "C", "D", "E", "F">>
IsHex(c) == \E d \in DOMAIN HexDigits : HexDigits[d] = c \/ Lower(HexDigits[d]) = c

\* the character of an escape %XY, for the escapes written out here
Unescaped(x, y) ==
    CASE <<x, y>> = <<"2", "0">> -> " "
      [] <<x, y>> = <<"0", "A">> -> "\n"
      [] <<x, y>> = <<"2", "B">> -> "+"
      [] <<x, y>> = <<"2", "5">> -> "%"
      [] <<x, y>> = <<"3", "A">> -> ":"
      [] OTHER -> "?"

RECURSIVE decodeURIComponent(_)
\* decodeURIComponent: [threw, text]; a '%' without two hex digits throws
decodeURIComponent(s) ==
    IF s = <<>> THEN [threw |-> FALSE, text |-> <<>>]
    ELSE IF Head(s) # "%"
    THEN LET r == decodeURIComponent(Tail(s))
         IN  [threw |-> r.threw, text |-> <<Head(s)>> \o r.text]
    ELSE IF Len(s) >= 3 /\ IsHex(s[2]) /\ IsHex(s[3])
    THEN LET r == decodeURIComponent(SubSeq(s, 4, Len(s)))
         IN  [threw |-> r.threw, text |-> <<Unescaped(s[2], s[3])>> \o r.text]
    ELSE [threw |-> TRUE, text |-> <<>>]

\* extractApiKey, of a non-empty cs_headers text
extractApiKey(csHeaders) ==
    IF MatchPositions(csHeaders) = {} THEN Null
    ELSE LET p == CHOOSE q \in MatchPositions(csHeaders) :
                     \A o \in MatchPositions(csHeaders) : q <= o
             captured == ValueRun(SubSeq(csHeaders, p + Len(HeaderPattern), Len(csHeaders)))
             decoded == decodeURIComponent(captured)
         IN  IF decoded.threw THEN Null ELSE Str(decoded.text)

\* the first position of s, from p on, that holds a character of cs; Len(s) + 1
\* without one
Find(s, p, cs) ==
    CHOOSE i \in p..(Len(s) + 1) :
        /\ i = Len(s) + 1 \/ s[i] \in cs
        /\ \A j \in p..(i - 1) : s[j] \notin cs

\* the quotes of s after the opening quote at p, up to position i
QuotesUpTo(s, p, i) == Cardinality({j \in (p + 1)..i : s[j] = "\""})

\* the quote that closes the field opened at p: the first one that is not half of
\* a doubled quote; 0 without one
ClosingQuote(s, p) ==
    LET closing == {i \in (p + 1)..Len(s) :
                      /\ s[i] = "\""
                      /\ QuotesUpTo(s, p, i) % 2 = 1
                      /\ i = Len(s) \/ s[i + 1] # "\""}
    IN  IF closing = {} THEN 0 ELSE CHOOSE i \in closing : \A o \in closing : i <= o

\* the text between the quotes at p and at close, a doubled quote read as one
Unquoted(s, p, close) ==
    LET kept == {j \in (p + 1)..(close - 1) :
                   ~(s[j] = "\"" /\ QuotesUpTo(s, p, j) % 2 = 0)}
    IN  [n \in 1..Cardinality(kept) |->
            s[CHOOSE k \in kept : Cardinality({x \in kept : x <= k}) = n]]

RECURSIVE PapaScan(_, _, _, _)
\* Papa.parse with a tab delimiter, from the field that starts at p: the rows of
\* the text, or an error. A field that starts with a quote runs to its closing
\* quote, which ends the input or is followed by spaces and then a delimiter or a
\* newline; a quote inside another field is a character like any other.
PapaScan(inp, p, row, rows) ==
    IF p <= Len(inp) /\ inp[p] = "\""
    THEN LET close == ClosingQuote(inp, p)
             q == IF close = 0 THEN 0
                  ELSE CHOOSE i \in (close + 1)..(Len(inp) + 1) :
                         /\ i = Len(inp) + 1 \/ inp[i] # " "
                         /\ \A j \in (close + 1)..(i - 1) : inp[j] = " "
             field == Unquoted(inp, p, close)
         IN  IF close = 0 THEN [error |-> TRUE, rows |-> <<>>]
             ELSE IF q = Len(inp) + 1
             THEN IF q = close + 1
                  THEN [error |-> FALSE, rows |-> Append(rows, Append(row, field))]
                  ELSE [error |-> TRUE, rows |-> <<>>]
             ELSE IF inp[q] = "\t" THEN PapaScan(inp, q + 1, Append(row, field), rows)
             ELSE IF inp[q] = "\n"
             THEN PapaScan(inp, q + 1, <<>>, Append(rows, Append(row, field)))
             ELSE [error |-> TRUE, rows |-> <<>>]
    ELSE LET end == Find(inp, p, {"\t", "\n"})
             field == SubSeq(inp, p, end - 1)
         IN  IF end = Len(inp) + 1
             THEN [error |-> FALSE, rows |-> Append(rows, Append(row, field))]
             ELSE IF inp[end] = "\t" THEN PapaScan(inp, end + 1, Append(row, field), rows)
             ELSE PapaScan(inp, end + 1, <<>>, Append(rows, Append(row, field)))

\* skipEmptyLines: true drops the rows that are one empty field
NotEmptyLine(row) == ~(Len(row) = 1 /\ row[1] = <<>>)

RECURSIVE SelectRows(_)
SelectRows(rows) ==
    IF rows = <<>> THEN <<>>
    ELSE IF NotEmptyLine(Head(rows)) THEN <<Head(rows)>> \o SelectRows(Tail(rows))
    ELSE SelectRows(Tail(rows))

\* Papa.parse(tsvLine, {delimiter: '\t', header: false, skipEmptyLines: true})
PapaParse(text) ==
    LET scanned == PapaScan(text, 1, <<>>, <<>>)
    IN  [errors |-> scanned.error, data |-> SelectRows(scanned.rows)]

EmptyJson == [f \in {} |-> Null]

\* the record parseTsvToJson builds from the first row's values
RecordOf(values) ==
    LET fieldCount == Min(Len(values), Len(FIELD_NAMES))
        names == {FIELD_NAMES[i] : i \in 1..fieldCount}
        IndexOf(f) == CHOOSE i \in 1..fieldCount : FIELD_NAMES[i] = f
        typed == [f \in names |-> convertFieldType(f, values[IndexOf(f)])]
        headers == IF "cs_headers" \in names THEN typed["cs_headers"] ELSE Null
    IN  [f \in names \cup {"api_key"} |->
            IF f = "api_key"
            THEN IF headers.t = "str" /\ headers.s # <<>> THEN extractApiKey(headers.s)
                 ELSE Null
            ELSE typed[f]]

\* parseTsvToJson: [threw, record]
parseTsvToJson(tsvLine) ==
    LET parsed == PapaParse(tsvLine)
    IN  IF parsed.errors THEN [threw |-> TRUE, record |-> EmptyJson]
        ELSE IF parsed.data = <<>> THEN [threw |-> TRUE, record |-> EmptyJson]
        ELSE [threw |-> FALSE, record |-> RecordOf(parsed.data[1])]

\* mutant: NaN is written as it is
JsonStringifyKeepNaN(record) == record

\* JSON.stringify of the record, as the document a reader parses back: NaN is
\* written as null
JsonStringify(record) ==
    [f \in DOMAIN record |-> IF record[f].t = "NaN" THEN Null ELSE record[f]]

\* a record's data: the base64 form of a text, or of a JSON document and the text
\* after it; absent when the record carries no data
RawData(text) == [present |-> TRUE, isJson |-> FALSE, json |-> EmptyJson, text |-> text]
NoData == [present |-> FALSE, isJson |-> FALSE, json |-> EmptyJson, text |-> <<>>]
JsonData(json, text) == [present |-> TRUE, isJson |-> TRUE, json |-> json, text |-> text]

\* mutant: a dropped record is left out of the output
MapOneSkipDropped(record) ==
    IF ~record.data.present
    THEN <<[recordId |-> record.recordId, result |-> "ProcessingFailed", data |-> record.data]>>
    ELSE IF Trim(record.data.text) = <<>> THEN <<>>
    ELSE LET parsed == parseTsvToJson(Trim(record.data.text))
         IN  IF parsed.threw
             THEN <<[recordId |-> record.recordId, result |-> "ProcessingFailed",
                     data |-> record.data]>>
             ELSE <<[recordId |-> record.recordId, result |-> "Ok",
                     data |-> JsonData(JsonStringify(parsed.record), <<"\n">>)]>>

\* mutant: a record that fails is returned with an empty payload
MapOneEmptyOnFailure(record) ==
    IF ~record.data.present
    THEN <<[recordId |-> record.recordId, result |-> "ProcessingFailed", data |-> RawData(<<>>)]>>
    ELSE IF Trim(record.data.text) = <<>>
    THEN <<[recordId |-> record.recordId, result |-> "Dropped", data |-> record.data]>>
    ELSE LET parsed == parseTsvToJson(Trim(record.data.text))
         IN  IF parsed.threw
             THEN <<[recordId |-> record.recordId, result |-> "ProcessingFailed",
                     data |-> RawData(<<>>)]>>
             ELSE <<[recordId |-> record.recordId, result |-> "Ok",
                     data |-> JsonData(JsonStringify(parsed.record), <<"\n">>)]>>

\* mutant: only the empty text is dropped, a blank one is parsed
MapOneNoTrim(record) ==
    IF ~record.data.present
    THEN <<[recordId |-> record.recordId, result |-> "ProcessingFailed", data |-> record.data]>>
    ELSE IF record.data.text = <<>>
    THEN <<[recordId |-> record.recordId, result |-> "Dropped", data |-> record.data]>>
    ELSE LET parsed == parseTsvToJson(record.data.text)
         IN  IF parsed.threw
             THEN <<[recordId |-> record.recordId, result |-> "ProcessingFailed",
                     data |-> record.data]>>
             ELSE <<[recordId |-> record.recordId, result |-> "Ok",
                     data |-> JsonData(JsonStringify(parsed.record), <<"\n">>)]>>

\* the callback of event.records.map: what one record adds to the output.
\* Buffer.from(undefined, 'base64') throws, like a parse error, into the catch
MapOne(record) ==
    IF ~record.data.present
    THEN <<[recordId |-> record.recordId, result |-> "ProcessingFailed", data |-> record.data]>>
    ELSE IF Trim(record.data.text) = <<>>
    THEN <<[recordId |-> record.recordId, result |-> "Dropped", data |-> record.data]>>
    ELSE LET parsed == parseTsvToJson(Trim(record.data.text))
         IN  IF parsed.threw
             THEN <<[recordId |-> record.recordId, result |-> "ProcessingFailed",
                     data |-> record.data]>>
             ELSE <<[recordId |-> record.recordId, result |-> "Ok",
                     data |-> JsonData(JsonStringify(parsed.record), <<"\n">>)]>>

\* a log line with a token for each of the 44 fields
UnitFull ==
    <<"1", "7", "5", "9", ".", "1", "9", "1", "\t", "3", "2", ".", "1", ".", "4", ".", "1",
      "0", "\t", "6", "5", ".", "8", ".", "1", ".", "6", "\t", "0", ".", "2", "5", "3",
      "\t", "2", "0", "0", "\t", "7", "8", "3", "\t", "G", "E", "T", "\t", "h", "t", "t",
      "p", "s", "\t", "d", ".", "c", "f", ".", "n", "e", "t", "\t", "/", "e", "x", "a",
      "m", "p", "l", "e", "\t", "-", "\t", "2", "0", "1", "\t", "S", "F", "O", "5", "3",
      "-", "P", "9", "\t", "H", "o", "I", "W", "=", "=", "\t", "d", ".", "c", "f", ".",
      "n", "e", "t", "\t", "0", ".", "2", "5", "3", "\t", "H", "T", "T", "P", "/", "1",
      ".", "1", "\t", "I", "P", "v", "4", "\t", "c", "u", "r", "l", "\t", "-", "\t", "-",
      "\t", "M", "i", "s", "s", "\t", "-", "\t", "T", "L", "S", "v", "1", ".", "3", "\t",
      "T", "L", "S", "_", "A", "E", "S", "\t", "M", "i", "s", "s", "\t", "-", "\t", "-",
      "\t", "j", "s", "o", "n", "\t", "1", "0", "2", "\t", "-", "\t", "-", "\t", "6", "3",
      "0", "5", "\t", "M", "i", "s", "s", "\t", "U", "S", "\t", "g", "z", "i", "p", "\t",
      "-", "\t", "*", "\t", "U", "s", "e", "r", "-", "A", "g", "e", "n", "t", ":", "c",
      "u", "r", "l", "%", "0", "A", "X", "-", "A", "p", "i", "-", "K", "e", "y", ":", "a",
      "b", "c", "1", "2", "3", "%", "0", "A", "H", "o", "s", "t", ":", "d", ".", "c", "f",
      ".", "n", "e", "t", "%", "0", "A", "\t", "U", "s", "e", "r", "-", "A", "g", "e", "n",
      "t", "%", "0", "A", "X", "-", "A", "p", "i", "-", "K", "e", "y", "%", "0", "A", "H",
      "o", "s", "t", "%", "0", "A", "\t", "3", "\t", "0", ".", "2", "3", "2", "\t", "0",
      ".", "2", "3", "2", "\t", "7", "0", "1", "8">>

\* the same line without its last token
UnitShort ==
    <<"1", "7", "5", "9", ".", "1", "9", "1", "\t", "3", "2", ".", "1", ".", "4", ".", "1",
      "0", "\t", "6", "5", ".", "8", ".", "1", ".", "6", "\t", "0", ".", "2", "5", "3",
      "\t", "2", "0", "0", "\t", "7", "8", "3", "\t", "G", "E", "T", "\t", "h", "t", "t",
      "p", "s", "\t", "d", ".", "c", "f", ".", "n", "e", "t", "\t", "/", "e", "x", "a",
      "m", "p", "l", "e", "\t", "-", "\t", "2", "0", "1", "\t", "S", "F", "O", "5", "3",
      "-", "P", "9", "\t", "H", "o", "I", "W", "=", "=", "\t", "d", ".", "c", "f", ".",
      "n", "e", "t", "\t", "0", ".", "2", "5", "3", "\t", "H", "T", "T", "P", "/", "1",
      ".", "1", "\t", "I", "P", "v", "4", "\t", "c", "u", "r", "l", "\t", "-", "\t", "-",
      "\t", "M", "i", "s", "s", "\t", "-", "\t", "T", "L", "S", "v", "1", ".", "3", "\t",
      "T", "L", "S", "_", "A", "E", "S", "\t", "M", "i", "s", "s", "\t", "-", "\t", "-",
      "\t", "j", "s", "o", "n", "\t", "1", "0", "2", "\t", "-", "\t", "-", "\t", "6", "3",
      "0", "5", "\t", "M", "i", "s", "s", "\t", "U", "S", "\t", "g", "z", "i", "p", "\t",
      "-", "\t", "*", "\t", "U", "s", "e", "r", "-", "A", "g", "e", "n", "t", ":", "c",
      "u", "r", "l", "%", "0", "A", "X", "-", "A", "p", "i", "-", "K", "e", "y", ":", "a",
      "b", "c", "1", "2", "3", "%", "0", "A", "H", "o", "s", "t", ":", "d", ".", "c", "f",
      ".", "n", "e", "t", "%", "0", "A", "\t", "U", "s", "e", "r", "-", "A", "g", "e", "n",
      "t", "%", "0", "A", "X", "-", "A", "p", "i", "-", "K", "e", "y", "%", "0", "A", "H",
      "o", "s", "t", "%", "0", "A", "\t", "3", "\t", "0", ".", "2", "3", "2", "\t", "0",
      ".", "2", "3", "2">>

UnitEmpty == <<>>
UnitBlank == <<" ", " ", "\n", " ">>
\* a quoted field that never closes
UnitOpenQuote == <<"\"", "a", "b", "\t", "c">>
\* one quoted empty field: a line without data
UnitQuotedEmpty == <<"\"", "\"">>
UnitTwoTokens == <<"n", "o", "t", "-", "e", "n", "o", "u", "g", "h", "\t", "t", "w", "o">>

\* the data a record of a batch may carry
BatchData ==
    {RawData(UnitFull), RawData(UnitShort), RawData(UnitEmpty), RawData(UnitBlank),
     RawData(UnitOpenQuote), RawData(UnitQuotedEmpty), RawData(UnitTwoTokens), NoData}

MaxBatch == 3

RecordIds == <<"rec-1", "rec-2", "rec-3", "rec-4", "rec-5">>

\* the batches Firehose may deliver: the record ids are its own, distinct
Batches ==
    UNION { { [i \in 1..n |-> [recordId |-> RecordIds[((i + k) % Len(RecordIds)) + 1],
                               data |-> ds[i]]] :
                ds \in [1..n -> BatchData], k \in 0..1 } :
            n \in 0..MaxBatch }

\* Firehose invokes the handler with a batch
TransformInvoke ==
    /\ xf.pc = "none"
    /\ \E batch \in Batches :
         xf' = [NoTransform EXCEPT !.pc = "mapping", !.records = batch, !.next = 1]
    /\ UNCHANGED <<rollupVars, call, rd>>

\* mutant: once a record has failed, the records after it fail with it
MapRecordPoisoned ==
    /\ xf.pc = "mapping"
    /\ xf.next <= Len(xf.records)
    /\ xf' = [xf EXCEPT
                !.output = @ \o
                    (IF \E j \in DOMAIN xf.output : xf.output[j].result = "ProcessingFailed"
                     THEN <<[recordId |-> xf.records[xf.next].recordId,
                             result |-> "ProcessingFailed",
                             data |-> xf.records[xf.next].data]>>
                     ELSE MapOne(xf.records[xf.next])),
                !.next = @ + 1]
    /\ UNCHANGED <<rollupVars, call, rd>>

\* event.records.map: the callback on the next record, its return value appended
MapRecord ==
    /\ xf.pc = "mapping"
    /\ xf.next <= Len(xf.records)
    /\ xf' = [xf EXCEPT !.output = @ \o MapOne(xf.records[xf.next]), !.next = @ + 1]
    /\ UNCHANGED <<rollupVars, call, rd>>

\* return { records: output }
TransformReturn ==
    /\ xf.pc = "mapping"
    /\ xf.next > Len(xf.records)
    /\ xf' = [xf EXCEPT !.pc = "returned", !.result = xf.output]
    /\ UNCHANGED <<rollupVars, call, rd>>

TransformNext == TransformInvoke \/ MapRecord \/ TransformReturn

\* the transform handler shares nothing with the rollup: the store stays as it is
TransformInit == Init /\ store = EmptyStore

TransformSpec == TransformInit /\ [][TransformNext]_vars

(***************************************************************************)
(* Single units and pairs of units, for the decoding of a unit             *)
(***************************************************************************)
\* the full line as Firehose delivers it, with its line end
UnitFullLine == UnitFull \o <<"\n">>

\* the full line with one token more than there are field names
UnitLong == UnitFull \o <<"\t", "e", "x", "t", "r", "a">>

\* the full line with an empty first token (no timestamp)
UnitEmptyFirst ==
    <<"\t", "3", "2", ".", "1", ".", "4", ".", "1", "0", "\t", "6", "5", ".", "8", ".",
      "1", ".", "6", "\t", "0", ".", "2", "5", "3", "\t", "2", "0", "0", "\t", "7", "8",
      "3", "\t", "G", "E", "T", "\t", "h", "t", "t", "p", "s", "\t", "d", ".", "c", "f",
      ".", "n", "e", "t", "\t", "/", "e", "x", "a", "m", "p", "l", "e", "\t", "-", "\t",
      "2", "0", "1", "\t", "S", "F", "O", "5", "3", "-", "P", "9", "\t", "H", "o", "I",
      "W", "=", "=", "\t", "d", ".", "c", "f", ".", "n", "e", "t", "\t", "0", ".", "2",
      "5", "3", "\t", "H", "T", "T", "P", "/", "1", ".", "1", "\t", "I", "P", "v", "4",
      "\t", "c", "u", "r", "l", "\t", "-", "\t", "-", "\t", "M", "i", "s", "s", "\t", "-",
      "\t", "T", "L", "S", "v", "1", ".", "3", "\t", "T", "L", "S", "_", "A", "E", "S",
      "\t", "M", "i", "s", "s", "\t", "-", "\t", "-", "\t", "j", "s", "o", "n", "\t", "1",
      "0", "2", "\t", "-", "\t", "-", "\t", "6", "3", "0", "5", "\t", "M", "i", "s", "s",
      "\t", "U", "S", "\t", "g", "z", "i", "p", "\t", "-", "\t", "*", "\t", "U", "s", "e",
      "r", "-", "A", "g", "e", "n", "t", ":", "c", "u", "r", "l", "%", "0", "A", "X", "-",
      "A", "p", "i", "-", "K", "e", "y", ":", "a", "b", "c", "1", "2", "3", "%", "0", "A",
      "H", "o", "s", "t", ":", "d", ".", "c", "f", ".", "n", "e", "t", "%", "0", "A", "\t",
      "U", "s", "e", "r", "-", "A", "g", "e", "n", "t", "%", "0", "A", "X", "-", "A", "p",
      "i", "-", "K", "e", "y", "%", "0", "A", "H", "o", "s", "t", "%", "0", "A", "\t", "3",
      "\t", "0", ".", "2", "3", "2", "\t", "0", ".", "2", "3", "2", "\t", "7", "0", "1", "8">>

\* the full line with sc_status abc, time_taken n/a and asn AS7018
UnitBadNumbers ==
    <<"1", "7", "5", "9", ".", "1", "9", "1", "\t", "3", "2", ".", "1", ".", "4", ".", "1",
      "0", "\t", "6", "5", ".", "8", ".", "1", ".", "6", "\t", "0", ".", "2", "5", "3",
      "\t", "a", "b", "c", "\t", "7", "8", "3", "\t", "G", "E", "T", "\t", "h", "t", "t",
      "p", "s", "\t", "d", ".", "c", "f", ".", "n", "e", "t", "\t", "/", "e", "x", "a",
      "m", "p", "l", "e", "\t", "-", "\t", "2", "0", "1", "\t", "S", "F", "O", "5", "3",
      "-", "P", "9", "\t", "H", "o", "I", "W", "=", "=", "\t", "d", ".", "c", "f", ".",
      "n", "e", "t", "\t", "n", "/", "a", "\t", "H", "T", "T", "P", "/", "1", ".", "1",
      "\t", "I", "P", "v", "4", "\t", "c", "u", "r", "l", "\t", "-", "\t", "-", "\t", "M",
      "i", "s", "s", "\t", "-", "\t", "T", "L", "S", "v", "1", ".", "3", "\t", "T", "L",
      "S", "_", "A", "E", "S", "\t", "M", "i", "s", "s", "\t", "-", "\t", "-", "\t", "j",
      "s", "o", "n", "\t", "1", "0", "2", "\t", "-", "\t", "-", "\t", "6", "3", "0", "5",
      "\t", "M", "i", "s", "s", "\t", "U", "S", "\t", "g", "z", "i", "p", "\t", "-", "\t",
      "*", "\t", "U", "s", "e", "r", "-", "A", "g", "e", "n", "t", ":", "c", "u", "r", "l",
      "%", "0", "A", "X", "-", "A", "p", "i", "-", "K", "e", "y", ":", "a", "b", "c", "1",
      "2", "3", "%", "0", "A", "H", "o", "s", "t", ":", "d", ".", "c", "f", ".", "n", "e",
      "t", "%", "0", "A", "\t", "U", "s", "e", "r", "-", "A", "g", "e", "n", "t", "%", "0",
      "A", "X", "-", "A", "p", "i", "-", "K", "e", "y", "%", "0", "A", "H", "o", "s", "t",
      "%", "0", "A", "\t", "3", "\t", "0", ".", "2", "3", "2", "\t", "0", ".", "2", "3",
      "2", "\t", "A", "S", "7", "0", "1", "8">>

\* the full line with sc_bytes 0, time_taken 0, cs_bytes and cs_referer empty
UnitZerosAndBlanks ==
    <<"1", "7", "5", "9", ".", "1", "9", "1", "\t", "3", "2", ".", "1", ".", "4", ".", "1",
      "0", "\t", "6", "5", ".", "8", ".", "1", ".", "6", "\t", "0", ".", "2", "5", "3",
      "\t", "2", "0", "0", "\t", "0", "\t", "G", "E", "T", "\t", "h", "t", "t", "p", "s",
      "\t", "d", ".", "c", "f", ".", "n", "e", "t", "\t", "/", "e", "x", "a", "m", "p",
      "l", "e", "\t", "-", "\t", "\t", "S", "F", "O", "5", "3", "-", "P", "9", "\t", "H",
      "o", "I", "W", "=", "=", "\t", "d", ".", "c", "f", ".", "n", "e", "t", "\t", "0",
      "\t", "H", "T", "T", "P", "/", "1", ".", "1", "\t", "I", "P", "v", "4", "\t", "c",
      "u", "r", "l", "\t", "\t", "-", "\t", "M", "i", "s", "s", "\t", "-", "\t", "T", "L",
      "S", "v", "1", ".", "3", "\t", "T", "L", "S", "_", "A", "E", "S", "\t", "M", "i",
      "s", "s", "\t", "-", "\t", "-", "\t", "j", "s", "o", "n", "\t", "1", "0", "2", "\t",
      "-", "\t", "-", "\t", "6", "3", "0", "5", "\t", "M", "i", "s", "s", "\t", "U", "S",
      "\t", "g", "z", "i", "p", "\t", "-", "\t", "*", "\t", "U", "s", "e", "r", "-", "A",
      "g", "e", "n", "t", ":", "c", "u", "r", "l", "%", "0", "A", "X", "-", "A", "p", "i",
      "-", "K", "e", "y", ":", "a", "b", "c", "1", "2", "3", "%", "0", "A", "H", "o", "s",
      "t", ":", "d", ".", "c", "f", ".", "n", "e", "t", "%", "0", "A", "\t", "U", "s", "e",
      "r", "-", "A", "g", "e", "n", "t", "%", "0", "A", "X", "-", "A", "p", "i", "-", "K",
      "e", "y", "%", "0", "A", "H", "o", "s", "t", "%", "0", "A", "\t", "3", "\t", "-",
      "\t", "0", ".", "2", "3", "2", "\t", "7", "0", "1", "8">>

\* two-token lines that start with a timestamp
UnitTs1005 == <<"1", ".", "0", "0", "5", "\t", "c", "i", "p">>
UnitTs25 == <<"2", ".", "5", "\t", "c", "i", "p">>
UnitTs0 == <<"0", "\t", "c", "i", "p">>

DecodeData ==
    {RawData(UnitFull), RawData(UnitFullLine), RawData(UnitShort), RawData(UnitLong),
     RawData(UnitTwoTokens), RawData(UnitEmptyFirst), RawData(UnitBadNumbers),
     RawData(UnitZerosAndBlanks), RawData(UnitTs1005), RawData(UnitTs25), RawData(UnitTs0)}

MaxUnits == 2

\* batches of one unit, or of a unit and a sibling
UnitBatches ==
    UNION { { [i \in 1..n |-> [recordId |-> RecordIds[i], data |-> ds[i]]] :
                ds \in [1..n -> DecodeData] } :
            n \in 1..MaxUnits }

\* Firehose invokes the handler with one of these batches
DecodeInvoke ==
    /\ xf.pc = "none"
    /\ \E batch \in UnitBatches :
         xf' = [NoTransform EXCEPT !.pc = "mapping", !.records = batch, !.next = 1]
    /\ UNCHANGED <<rollupVars, call, rd>>

DecodeNext == DecodeInvoke \/ MapRecord \/ TransformReturn

DecodeSpec == TransformInit /\ [][DecodeNext]_vars

(***************************************************************************)
(* convertFieldType and extractApiKey, applied to one argument list        *)
(***************************************************************************)
\* the tokens convertFieldType is applied to
ConvertTokens ==
    {<<"-">>, <<>>, <<"0">>, <<"1", "2">>, <<"1", ".", "5">>, <<"a", "b", "c">>,
     <<"1", "2", "a", "b", "c">>, <<"-", "3">>, <<"1", ".", "0", "0", "5">>}

ConvertCalls ==
    {[NoCall EXCEPT !.op = "convertFieldType", !.name = FIELD_NAMES[i], !.text = tok] :
        i \in DOMAIN FIELD_NAMES, tok \in ConvertTokens}

\* return convertFieldType(fieldName, value)
ApplyConvert ==
    /\ call.op = "convertFieldType" /\ ~call.done
    /\ call' = [call EXCEPT !.done = TRUE, !.value = convertFieldType(call.name, call.text)]
    /\ UNCHANGED <<rollupVars, xf, rd>>

\* header blobs: three headers in every order, the key header's name in three
\* casings, the headers separated by a newline or by its escape %0A
OtherHeader == <<"o", "t", "h", "e", "r", ":", "1">>
AnotherHeader == <<"a", "n", "o", "t", "h", "e", "r", ":", "2">>
KeyNames ==
    {<<"X", "-", "A", "p", "i", "-", "K", "e", "y">>,
     <<"X", "-", "A", "P", "I", "-", "K", "E", "Y">>,
     <<"x", "-", "a", "p", "i", "-", "k", "e", "y">>}
HeaderSeps == {<<"\n">>, <<"%", "0", "A">>}

OrderingBlobs ==
    {LET hs == <<OtherHeader, name \o <<":", "a", "b", "c">>, AnotherHeader>>
     IN  hs[f[1]] \o sep \o hs[f[2]] \o sep \o hs[f[3]] :
        name \in KeyNames, sep \in HeaderSeps, f \in Permutations({1, 2, 3})}

\* blobs whose key value holds percent-escapes
EscapeBlobs ==
    {<<"H", "o", "s", "t", ":", "h", "%", "0", "A", "X", "-", "A", "p", "i", "-", "K", "e", "y", ":", "a", "b", "%", "2", "B", "c", "d", "%", "0", "A", "A", "c", "c", "e", "p", "t", ":", "x", "%", "0", "A">>,
     <<"X", "-", "A", "p", "i", "-", "K", "e", "y", ":", "a", "%", "2", "0", "b", "%", "3", "A", "c">>}

\* blobs whose key value holds a malformed percent-escape
MalformedBlobs ==
    {<<"H", "o", "s", "t", ":", "h", "%", "0", "A", "X", "-", "A", "p", "i", "-", "K", "e", "y", ":", "a", "b", "%", "Z", "Z", "c", "d", "%", "0", "A", "A", "c", "c", "e", "p", "t", ":", "x", "%", "0", "A">>,
     <<"X", "-", "A", "p", "i", "-", "K", "e", "y", ":", "a", "b", "c", "%">>}

\* blobs with a header whose name ends in X-Api-Key, alone, before and after
\* the X-Api-Key header itself
LookalikeBlobs ==
    {<<"N", "o", "t", "-", "X", "-", "A", "p", "i", "-", "K", "e", "y", ":", "e", "v", "i", "l">>,
     <<"N", "o", "t", "-", "X", "-", "A", "p", "i", "-", "K", "e", "y", ":", "e", "v", "i", "l", "%", "0", "A", "X", "-", "A", "p", "i", "-", "K", "e", "y", ":", "r", "e", "a", "l", "%", "0", "A">>,
     <<"X", "-", "A", "p", "i", "-", "K", "e", "y", ":", "r", "e", "a", "l", "\n", "N", "o", "t", "-", "X", "-", "A", "p", "i", "-", "K", "e", "y", ":", "e", "v", "i", "l">>,
     <<"H", "o", "s", "t", ":", "h", "%", "0", "A", "P", "r", "o", "x", "y", "-", "x", "-", "a", "p", "i", "-", "k", "e", "y", ":", "e", "v", "i", "l", "\n", "X", "-", "A", "P", "I", "-", "K", "E", "Y", ":", "r", "e", "a", "l">>}

ExtractCalls ==
    {[NoCall EXCEPT !.op = "extractApiKey", !.name = "ordering", !.text = b] :
        b \in OrderingBlobs}
    \cup {[NoCall EXCEPT !.op = "extractApiKey", !.name = "escape", !.text = b] :
            b \in EscapeBlobs}
    \cup {[NoCall EXCEPT !.op = "extractApiKey", !.name = "malformed", !.text = b] :
            b \in MalformedBlobs}
    \cup {[NoCall EXCEPT !.op = "extractApiKey", !.name = "lookalike", !.text = b] :
            b \in LookalikeBlobs}

\* return extractApiKey(csHeaders)
ApplyExtract ==
    /\ call.op = "extractApiKey" /\ ~call.done
    /\ call' = [call EXCEPT !.done = TRUE, !.value = extractApiKey(call.text)]
    /\ UNCHANGED <<rollupVars, xf, rd>>

\* one of the functions is about to be applied to its arguments
FunctionInit ==
    /\ run = [r \in Runs |-> PendingRun]
    /\ athena = <<>>
    /\ store = EmptyStore
    /\ store0 = store
    /\ clock = 1
    /\ puts = [r \in Runs |-> <<>>]
    /\ xf = NoTransform
    /\ call \in ConvertCalls \cup ExtractCalls
    /\ rd = NoRead

FunctionNext == ApplyConvert \/ ApplyExtract

FunctionSpec == FunctionInit /\ [][FunctionNext]_vars

(***************************************************************************)
(* The usage handler (get-usage.js) and the Query of the counter store     *)
(* Numbers of response times are in thousandths of a millisecond.          *)
(***************************************************************************)
\* mutant: only the year and month of the prefix are compared
BeginsWithMonth(s, prefix) ==
    Len(prefix) = 7 /\ Len(prefix) <= Len(s) /\ SubSeq(s, 1, Len(prefix)) = prefix

\* begins_with(#date, :prefix)
BeginsWith(s, prefix) ==
    Len(prefix) <= Len(s) /\ SubSeq(s, 1, Len(prefix)) = prefix

\* mutant: the key condition without the api_key equality
MatchingKeysAnyIdentity(st, apiKey, datePrefix) ==
    {k \in DOMAIN st : BeginsWith(k[2], datePrefix)}

\* KeyConditionExpression 'api_key = :key AND begins_with(#date, :prefix)'
MatchingKeys(st, apiKey, datePrefix) ==
    {k \in DOMAIN st : k[1] = apiKey /\ BeginsWith(k[2], datePrefix)}

\* the items under a set of keys, as an array (the fold below does not depend
\* on its order)
RECURSIVE ItemsOf(_, _)
ItemsOf(st, keys) ==
    IF keys = {} THEN <<>>
    ELSE LET k == CHOOSE x \in keys : TRUE
         IN  <<st[k]>> \o ItemsOf(st, keys \ {k})

\* QueryCommand: response.Items
Query(st, apiKey, datePrefix) == ItemsOf(st, MatchingKeys(st, apiKey, datePrefix))

\* parseInt(item.x?.N || '0', 10), parseFloat(item.x?.N || '0'): the number the
\* attribute holds, 0 for an attribute the item lacks
AttrOrZero(item, name) == IF name \in DOMAIN item THEN item[name] ELSE 0

\* mutant: the response times are summed without their weights
AddItemUnweighted(sum, item) ==
    [request_count |-> sum.request_count + AttrOrZero(item, "request_count"),
     total_bytes_sent |-> sum.total_bytes_sent + AttrOrZero(item, "total_bytes_sent"),
     total_bytes_received |->
         sum.total_bytes_received + AttrOrZero(item, "total_bytes_received"),
     successful_requests |->
         sum.successful_requests + AttrOrZero(item, "successful_requests"),
     error_requests |-> sum.error_requests + AttrOrZero(item, "error_requests"),
     cache_hits |-> sum.cache_hits + AttrOrZero(item, "cache_hits"),
     cache_misses |-> sum.cache_misses + AttrOrZero(item, "cache_misses"),
     total_response_time |->
         sum.total_response_time + AttrOrZero(item, "avg_response_time_ms")]

\* the reducer: (sum, item) => ({...})
AddItem(sum, item) ==
    [request_count |-> sum.request_count + AttrOrZero(item, "request_count"),
     total_bytes_sent |-> sum.total_bytes_sent + AttrOrZero(item, "total_bytes_sent"),
     total_bytes_received |->
         sum.total_bytes_received + AttrOrZero(item, "total_bytes_received"),
     successful_requests |->
         sum.successful_requests + AttrOrZero(item, "successful_requests"),
     error_requests |-> sum.error_requests + AttrOrZero(item, "error_requests"),
     cache_hits |-> sum.cache_hits + AttrOrZero(item, "cache_hits"),
     cache_misses |-> sum.cache_misses + AttrOrZero(item, "cache_misses"),
     total_response_time |->
         sum.total_response_time
           + AttrOrZero(item, "avg_response_time_ms") * AttrOrZero(item, "request_count")]

\* response.Items.reduce(reducer, initial)
RECURSIVE Reduce(_, _)
Reduce(items, sum) ==
    IF items = <<>> THEN sum ELSE Reduce(Tail(items), AddItem(sum, Head(items)))

\* the number a / b (b > 0), as a fraction in lowest terms
Quotient(a, b) ==
    LET RECURSIVE Gcd(_, _)
        Gcd(x, y) == IF y = 0 THEN x ELSE Gcd(y, x % y)
        g == Gcd(a, b)
    IN  [n |-> a \div g, d |-> b \div g]

\* (hits / (hits + misses) * 100).toFixed(2), a text held as its hundredths, or
\* the number 0 (no quotient of the counts used lies on a rounding tie)
CacheHitRate(hits, misses) ==
    IF hits + misses > 0
    THEN [text |-> TRUE,
          hundredths |-> (20000 * hits + (hits + misses)) \div (2 * (hits + misses))]
    ELSE [text |-> FALSE, hundredths |-> 0]

\* the object getUsage returns for the Items of its query
UsageOf(apiKey, datePrefix, items) ==
    LET totals == Reduce(items,
                     [request_count |-> 0, total_bytes_sent |-> 0,
                      total_bytes_received |-> 0, successful_requests |-> 0,
                      error_requests |-> 0, cache_hits |-> 0, cache_misses |-> 0,
                      total_response_time |-> 0])
    IN  [apiKey |-> apiKey,
         datePrefix |-> datePrefix,
         requestCount |-> totals.request_count,
         totalBytesSent |-> totals.total_bytes_sent,
         totalBytesReceived |-> totals.total_bytes_received,
         successfulRequests |-> totals.successful_requests,
         errorRequests |-> totals.error_requests,
         cacheHits |-> totals.cache_hits,
         cacheMisses |-> totals.cache_misses,
         averageResponseTimeMs |->
             IF totals.request_count > 0
             THEN Quotient(totals.total_response_time, totals.request_count)
             ELSE [n |-> 0, d |-> 1],
         cacheHitRate |-> CacheHitRate(totals.cache_hits, totals.cache_misses),
         records |-> Len(items)]

\* getUsage on the table as it is when the query is answered
getUsage(st, apiKey, datePrefix) ==
    UsageOf(apiKey, datePrefix, Query(st, apiKey, datePrefix))

\* a value of event.queryStringParameters that is not falsy
Truthy(v) == v # Undefined /\ v # ""

\* event.queryStringParameters of the requests: a parameter is absent, empty
\* or a text
Requests ==
    [api_key : {Undefined, "", "keyA", "keyB"},
     date : {Undefined, "", "2025-10-05", "2025-11-05"},
     month : {Undefined, "2025-10", "2025-11"}]

BadRequest(message) == [statusCode |-> 400, error |-> message]

\* event.queryStringParameters?.date || event.queryStringParameters?.month
DatePrefixOf(q) == IF Truthy(q.date) THEN q.date ELSE q.month

\* mutant: a missing prefix is read as the empty prefix
ValidateLenient(q) ==
    IF ~Truthy(q.api_key)
    THEN [NoRead EXCEPT !.pc = "Done", !.event = q,
                        !.response = BadRequest("api_key parameter is required")]
    ELSE [NoRead EXCEPT !.pc = "Querying", !.event = q, !.apiKey = q.api_key,
                        !.datePrefix = IF Truthy(DatePrefixOf(q)) THEN DatePrefixOf(q)
                                       ELSE ""]

\* the two parameter checks of the handler: a 400 response, or on to getUsage
Validate(q) ==
    IF ~Truthy(q.api_key)
    THEN [NoRead EXCEPT !.pc = "Done", !.event = q,
                        !.response = BadRequest("api_key parameter is required")]
    ELSE IF ~Truthy(DatePrefixOf(q))
    THEN [NoRead EXCEPT !.pc = "Done", !.event = q,
                        !.response = BadRequest("date or month parameter is required")]
    ELSE [NoRead EXCEPT !.pc = "Querying", !.event = q, !.apiKey = q.api_key,
                        !.datePrefix = DatePrefixOf(q)]

\* the handler up to its await, on the request API Gateway delivers
UsageInvoke ==
    /\ rd.pc = "none"
    /\ \E q \in Requests : rd' = Validate(q)
    /\ UNCHANGED <<rollupVars, xf, call>>

\* mutant: no rows is answered with an error
AnswerNotFound(usage) ==
    IF usage.records = 0 THEN [statusCode |-> 404, error |-> "No usage data"]
    ELSE [statusCode |-> 200, body |-> usage]

\* the response for what getUsage returned; body is the object JSON.stringify
\* serialises
Answer(usage) == [statusCode |-> 200, body |-> usage]

\* the Query is answered and the handler returns, or the Query is rejected and
\* the catch answers 500
UsageQuery ==
    /\ rd.pc = "Querying"
    /\ \/ rd' = [rd EXCEPT !.pc = "Done", !.queries = @ + 1,
                           !.response = Answer(getUsage(store, rd.apiKey, rd.datePrefix))]
       \/ rd' = [rd EXCEPT !.pc = "Done", !.queries = @ + 1,
                           !.response = [statusCode |-> 500,
                                         error |-> "Failed to fetch usage data"]]
    /\ UNCHANGED <<rollupVars, xf, call>>

\* the tables a request can find: empty, or holding days of keyA in two months,
\* a day of keyB and a row of the older rollup (other counters, the plain date)
UsageStores ==
    LET row(apiKey, date, n, ms, hits, misses) ==
            ItemOf(apiKey, date,
                   [request_count |-> n, total_bytes_sent |-> 100 * n,
                    total_bytes_received |-> 10 * n, avg_response_time_ms |-> ms,
                    successful_requests |-> n - 1, error_requests |-> 1,
                    cache_hits |-> hits, cache_misses |-> misses,
                    countries_served |-> 1], 0)
        sixth == row("keyA", "2025-10-06T00:00:00Z", 3, 253, 2, 1)
        november == row("keyA", "2025-11-05T00:00:00Z", 7, 1500, 0, 0)
        other == row("keyB", "2025-10-05T00:00:00Z", 4, 64000, 4, 0)
        older == [api_key |-> "keyB", date |-> "2025-11-05", request_count |-> 2,
                  total_bytes |-> 70, total_latency |-> 253, last_updated |-> 0]
        A == PutItem(EmptyStore, PriorItem)
        B == PutItem(PutItem(A, sixth), november)
    IN  {EmptyStore, B, PutItem(PutItem(B, other), older)}

UsageInit ==
    /\ run = [r \in Runs |-> PendingRun]
    /\ athena = <<>>
    /\ store \in UsageStores
    /\ store0 = store
    /\ clock = 1
    /\ puts = [r \in Runs |-> <<>>]
    /\ xf = NoTransform
    /\ call = NoCall
    /\ rd = NoRead

\* a request, beside one invocation of the rollup handler
UsageNext ==
    \/ UsageInvoke
    \/ UsageQuery
    \/ Begin("run1")
    \/ StartResponse("run1")
    \/ Poll("run1")
    \/ TimedOut("run1")
    \/ Fetch("run1")
    \/ Merge("run1")
    \/ Finish("run1")

UsageSpec == UsageInit /\ [][UsageNext]_vars

(***************************************************************************)
(* The billing query of the command line tool (scripts/query-usage.js),    *)
(* evaluated on the log records of one day.  A record stands for one       *)
(* request: its api_key, its viewer country and its sc_bytes in whole      *)
(* gibibytes.  Money is in ten-thousandths of a dollar, the precision the  *)
(* query rounds to.                                                        *)
(***************************************************************************)
MaxLog == 2        \* most log records of the day

\* the log records the WHERE clause of the query selects
BillingLogs ==
    LET Record == [api_key : {"keyA", "keyB"},
                   c_country : {"US", "CA", "GB", "DE", "JP", "AU", "FR"},
                   gib : {1, 3}]
    IN  UNION {[1..n -> Record] : n \in 1..MaxLog}

RECURSIVE SumGib(_, _)
SumGib(log, idx) ==
    IF idx = {} THEN 0
    ELSE LET i == CHOOSE x \in idx : TRUE IN log[i].gib + SumGib(log, idx \ {i})

\* the rows buildBillingQuery's query returns, by api_key (GROUP BY in the
\* usage_metrics CTE): 0.0001 per request, 0.085 per gigabyte
CliBillingQuery(log) ==
    LET of(k) == {i \in DOMAIN log : log[i].api_key = k}
    IN  [k \in {log[i].api_key : i \in DOMAIN log} |->
           [api_key |-> k,
            total_requests |-> Cardinality(of(k)),
            total_gb |-> SumGib(log, of(k)),
            request_cost |-> Cardinality(of(k)) * 1,
            bandwidth_cost |-> SumGib(log, of(k)) * 850,
            total_cost |-> Cardinality(of(k)) * 1 + SumGib(log, of(k)) * 850]]

\* node scripts/query-usage.js --billing on the log of the day
ApplyBilling ==
    /\ call.op = "buildBillingQuery"
    /\ ~call.done
    /\ call' = [call EXCEPT !.done = TRUE, !.value = CliBillingQuery(call.text)]
    /\ UNCHANGED <<rollupVars, xf, rd>>

BillingInit ==
    /\ run = [r \in Runs |-> PendingRun]
    /\ athena = <<>>
    /\ store = EmptyStore
    /\ store0 = store
    /\ clock = 1
    /\ puts = [r \in Runs |-> <<>>]
    /\ xf = NoTransform
    /\ rd = NoRead
    /\ \E log \in BillingLogs :
         call = [op |-> "buildBillingQuery", name |-> "billing", text |-> log,
                 done |-> FALSE, value |-> <<>>]

BillingSpec == BillingInit /\ [][ApplyBilling]_vars

(***************************************************************************)
(* The older daily rollup handler (rollup-usage.js).  Its waitForQueryResults *)
(* and executeAthenaQuery are the code of the realtime handler, so its     *)
(* invocations take the steps StartResponse, Poll, TimedOut and Fetch.     *)
(***************************************************************************)
\* handler lines 126-142 and executeAthenaQuery up to its first await; the
\* daily schedule starts an invocation when no other is under way
LegacyBegin(r) ==
    /\ run[r].pc = "Pending"
    /\ \A o \in Runs \ {r} : run[o].pc \in {"Pending", "Complete", "Failed"}
    /\ \E date \in Dates \cup {NoDate}, yesterday \in Dates :
         LET targetDate == IF date = NoDate THEN yesterday ELSE date
             c == parseDateComponents(targetDate)
         IN  run' = [run EXCEPT ![r] =
                 [@ EXCEPT !.pc = "Starting",
                           !.targetDate = targetDate,
                           !.query = [kind |-> "legacy", year |-> c.year,
                                      month |-> c.month, day |-> c.day]]]
    /\ UNCHANGED <<xf, call, rd, athena, store, store0, clock, puts>>

\* the metrics object of one result row: parseInt, parseInt, parseFloat
LegacyMetricsOf(data) ==
    [request_count |-> ParseInt10(At(data, 2)),
     total_bytes |-> ParseInt10(At(data, 3)),
     total_latency |-> ParseFloatMilli(At(data, 4))]

\* mutant: the counters are SET, not added
UpdateItemSet(st, key, adds, now) ==
    [k \in DOMAIN st \cup {key} |->
       IF k = key
       THEN [api_key |-> key[1], date |-> key[2],
             request_count |-> adds.request_count, total_bytes |-> adds.total_bytes,
             total_latency |-> adds.total_latency, last_updated |-> now]
       ELSE st[k]]

\* UpdateItem with ADD request_count, total_bytes, total_latency and SET
\* last_updated: an absent item or attribute counts as 0, other attributes stay
UpdateItem(st, key, adds, now) ==
    LET old == IF key \in DOMAIN st THEN st[key]
               ELSE [api_key |-> key[1], date |-> key[2]]
        new == [f \in DOMAIN old \cup DOMAIN adds \cup {"last_updated"} |->
                  IF f \in DOMAIN adds THEN AttrOrZero(old, f) + adds[f]
                  ELSE IF f = "last_updated" THEN now
                  ELSE old[f]]
    IN  [k \in DOMAIN st \cup {key} |-> IF k = key THEN new ELSE st[k]]

\* one iteration of for (const row of dataRows): storeUsageMetrics, whose
\* UpdateItem the store applies or rejects; a NaN metric is sent as N "NaN",
\* which the store always rejects
LegacyMerge(r) ==
    /\ run[r].pc = "Merging"
    /\ run[r].idx <= Len(run[r].dataRows)
    /\ LET data == run[r].dataRows[run[r].idx]
           key == <<At(data, 1), JoinDash(run[r].targetDate)>>
           m == LegacyMetricsOf(data)
           valid == ~m.request_count.nan /\ ~m.total_bytes.nan /\ ~m.total_latency.nan
           adds == [request_count |-> OrZero(m.request_count),
                    total_bytes |-> OrZero(m.total_bytes),
                    total_latency |-> OrZero(m.total_latency)]
           prior == Lookup(store, key)
       IN  \/ /\ valid
              /\ store' = UpdateItem(store, key, adds, clock)
              /\ run' = [run EXCEPT ![r] = [@ EXCEPT !.idx = @ + 1]]
              /\ puts' = [puts EXCEPT ![r] = Append(@,
                   [item |-> [api_key |-> key[1], date |-> key[2]], adds |-> adds,
                    prior |-> prior, after |-> Lookup(store', key), ok |-> TRUE])]
           \/ /\ run' = [run EXCEPT ![r] = OnError(@, "UpdateItem rejected")]
              /\ puts' = [puts EXCEPT ![r] = Append(@,
                   [item |-> [api_key |-> key[1], date |-> key[2]], adds |-> adds,
                    prior |-> prior, after |-> prior, ok |-> FALSE])]
              /\ UNCHANGED store
    /\ clock' = clock + 1
    /\ UNCHANGED <<xf, call, rd, athena, store0>>

\* the loop is over: the response of a run that got through
LegacyFinish(r) ==
    /\ run[r].pc = "Merging"
    /\ run[r].idx > Len(run[r].dataRows)
    /\ run' = [run EXCEPT ![r] =
          [PendingRun EXCEPT !.pc = "Complete",
                             !.response = [statusCode |-> 200,
                                           date |-> JoinDash(run[r].targetDate),
                                           apiKeysProcessed |-> Len(run[r].dataRows)]]]
    /\ UNCHANGED <<xf, call, rd, athena, store, store0, clock, puts>>

LegacyNext ==
    \E r \in Runs :
        \/ LegacyBegin(r)
        \/ StartResponse(r)
        \/ Poll(r)
        \/ TimedOut(r)
        \/ Fetch(r)
        \/ LegacyMerge(r)
        \/ LegacyFinish(r)

LegacySpec == Init /\ [][LegacyNext]_vars

(***************************************************************************)
(* Views used by the properties                                            *)
(***************************************************************************)
HasExec(r) == \E q \in DOMAIN athena : athena[q].owner = r
ExecOf(r) == CHOOSE q \in DOMAIN athena : athena[q].owner = r
ExecsOf(r) == {q \in DOMAIN athena : athena[q].owner = r}

CountersOf(item) == [c \in Counters |-> item[c]]

IsComplete(r) == run[r].pc = "Complete"
IsFailed(r) == run[r].pc = "Failed"
DailyComplete(r) == IsComplete(r) /\ run[r].response.queryType = "daily_usage"

\* the data rows the run's single GetQueryResults call returns
FetchedRows(r) == Tail(FirstPage(athena[ExecOf(r)]))

(***************************************************************************)
(* C1-C9: the realtime rollup handler                                      *)
(***************************************************************************)
\* run b is a re-run of the day run a processed: both daily_usage runs got
\* through for the same date, a before b, on the same result rows
Rerun(a, b) ==
    /\ a # b
    /\ DailyComplete(a) /\ DailyComplete(b)
    /\ run[a].response.timestamp = run[b].response.timestamp
    /\ ExecOf(a) < ExecOf(b)
    /\ athena[ExecOf(a)].rows = athena[ExecOf(b)].rows

\* C1: when a daily_usage run is repeated for the same date on the same result
\* rows (runs one after the other), every key the second run writes held a row
\* after the first run, and each numeric counter of that row is, after the second
\* run, what it was after the first: nothing is counted twice.
C1_RerunDoesNotDoubleCount ==
    \A a \in Runs, b \in Runs :
        Rerun(a, b) =>
            /\ Len(puts[b]) = Len(puts[a])
            /\ \A n \in DOMAIN puts[b] :
                 LET p == puts[b][n]
                 IN  /\ p.prior # NoItem
                     /\ CountersOf(p.prior) = CountersOf(puts[a][n].after)
                     /\ CountersOf(store[KeyOf(p.item)]) = CountersOf(p.prior)

C1_Witness ==
    \E a \in Runs, b \in Runs :
        /\ Rerun(a, b)
        /\ Len(puts[b]) >= 2
        /\ puts[b][1].prior.request_count > 0

StoreChangesAreLoggedPuts ==
    \A k \in DOMAIN store :
        Lookup(store0, k) # store[k] =>
            \E r \in Runs : \E n \in DOMAIN puts[r] :
                puts[r][n].ok /\ puts[r][n].item = store[k]

\* C3: a run whose query ended FAILED or CANCELLED, or whose polls ran out, ends
\* failed and has made no write to the store; the store differs from the initial
\* one only by the puts of other runs.
C3_FailedQueryWritesNothing ==
    /\ StoreChangesAreLoggedPuts
    /\ \A r \in Runs :
         /\ (HasExec(r) /\ athena[ExecOf(r)].state \in {"FAILED", "CANCELLED"}) =>
                (IsFailed(r) /\ run[r].response.error = "Query failed" /\ puts[r] = <<>>)
         /\ (IsFailed(r) /\ run[r].response.error = "Query timed out") =>
                (puts[r] = <<>> /\ athena[ExecOf(r)].state \notin Terminal)

C3_Witness ==
    \E a \in Runs, b \in Runs :
        /\ IsFailed(a) /\ run[a].response.error = "Query timed out"
        /\ IsFailed(b) /\ HasExec(b) /\ athena[ExecOf(b)].state = "CANCELLED"
        /\ store = store0 /\ store # EmptyStore

\* C4 as claimed: when a daily_usage run returns 200, every row of the query's
\* full result has been written to the store.
C4_EveryResultRowIsStored ==
    \A r \in Runs :
        DailyComplete(r) =>
            \A n \in DOMAIN athena[ExecOf(r)].rows :
                \E m \in DOMAIN puts[r] :
                    /\ puts[r][m].ok
                    /\ puts[r][m].item.api_key = athena[ExecOf(r)].rows[n][1]

Phase(pc) ==
    CASE pc = "Pending" -> "Pending"
      [] pc \in {"Starting", "Polling", "Fetching"} -> "Querying"
      [] OTHER -> pc

\* what one step may do to run r, by the code position it is at
StepInOrder(r) ==
    LET old == run[r]
        new == run'[r]
        moved == new # old \/ puts'[r] # puts[r] \/ ExecsOf(r)' # ExecsOf(r)
    IN  moved =>
          /\ <<old.pc, new.pc>> \in
                {<<"Pending", "Starting">>, <<"Starting", "Polling">>,
                 <<"Polling", "Polling">>, <<"Polling", "Fetching">>,
                 <<"Fetching", "Merging">>, <<"Merging", "Merging">>,
                 <<"Merging", "Complete">>, <<"Starting", "Failed">>,
                 <<"Polling", "Failed">>, <<"Fetching", "Failed">>,
                 <<"Merging", "Failed">>}
          \* the query is submitted first, and once
          /\ ExecsOf(r)' # ExecsOf(r) => (old.pc = "Starting" /\ ExecsOf(r) = {})
          /\ new.pc \in {"Polling", "Fetching", "Merging"} => ExecsOf(r)' # {}
          \* results are fetched only after a poll returned SUCCEEDED
          /\ new.pc = "Fetching" => athena'[new.queryExecutionId].state = "SUCCEEDED"
          /\ (new.pc = "Merging" /\ new.dataRows # old.dataRows) =>
                /\ old.pc = "Fetching"
                /\ athena[old.queryExecutionId].state = "SUCCEEDED"
          \* the store is written only after the results were fetched
          /\ puts'[r] # puts[r] => old.pc = "Merging"
          \* Failed is entered from Querying or from Merging
          /\ new.pc = "Failed" =>
                /\ Phase(old.pc) \in {"Querying", "Merging"}
                /\ new.failedFrom = old.pc
          \* a run that ended does nothing more
          /\ old.pc \notin {"Complete", "Failed"}

\* C5: a run goes Pending, Querying, Merging, Complete: it submits its query
\* first, fetches results only after a poll returned SUCCEEDED, writes the store
\* only after the fetch, ends Complete or Failed (Failed from Querying or Merging
\* only), and once ended makes no further call.
C5_StepsInOrder == [][\A r \in Runs : StepInOrder(r)]_vars

C5_Witness ==
    \E a \in Runs, b \in Runs :
        /\ DailyComplete(a) /\ Len(puts[a]) >= 2
        /\ IsFailed(b) /\ run[b].failedFrom = "Merging" /\ Len(puts[b]) >= 2

\* what one step may do to a run that is in waitForQueryResults
PollStep(r) ==
    LET old == run[r]
        new == run'[r]
        id == old.queryExecutionId
    IN  (old.pc = "Polling" /\ new # old) =>
          IF old.i >= MaxAttempts
          THEN /\ new.pc = "Failed" /\ new.response.error = "Query timed out"
               /\ athena' = athena
               /\ old.i = MaxAttempts
          ELSE CASE athena'[id].state = "SUCCEEDED" -> new.pc = "Fetching"
                 [] athena'[id].state \in {"FAILED", "CANCELLED"} ->
                        new.pc = "Failed" /\ new.response.error = "Query failed"
                 [] OTHER ->
                        \/ new.pc = "Polling" /\ new.i = old.i + 1
                        \/ /\ new.pc = "Failed"
                           /\ new.response.error = "GetQueryExecution rejected"

\* C6: the wait makes at most maxAttempts polls: with maxAttempts polls behind it
\* and no terminal state seen the run fails with 'Query timed out' without
\* another poll; a poll that returns FAILED or CANCELLED fails the run in that
\* step, and one that returns SUCCEEDED ends the wait in that step.
C6_BoundedPolling == [][\A r \in Runs : PollStep(r)]_vars

C6_Witness ==
    \E a \in Runs, b \in Runs :
        /\ IsFailed(a) /\ run[a].response.error = "Query timed out"
        /\ run[b].pc = "Fetching"

\* C7: an invocation starts at most one query execution, exactly one once the
\* engine accepted it, whatever happens later (no retry after a failed or timed
\* out query); the query of a timed out run is left running, not cancelled.
C7_OneQueryPerInvocation ==
    \A r \in Runs :
        /\ Cardinality(ExecsOf(r)) <= 1
        /\ (run[r].pc \in {"Polling", "Fetching", "Merging", "Complete"}
              \/ (IsFailed(r) /\ run[r].failedFrom # "Starting")) =>
                Cardinality(ExecsOf(r)) = 1
        /\ (IsFailed(r) /\ run[r].failedFrom = "Starting") => ExecsOf(r) = {}
        /\ (IsFailed(r) /\ run[r].response.error = "Query timed out") =>
                athena[ExecOf(r)].state = "RUNNING"
        /\ Len(athena) <= Cardinality(Runs)

C7_Witness ==
    \E a \in Runs, b \in Runs :
        /\ IsFailed(a) /\ run[a].response.error = "Query timed out"
        /\ IsFailed(b) /\ run[b].response.error = "Query failed"
        /\ Len(athena) = 2

\* the store after the runs whose put items are given ran one after the other
RECURSIVE ApplyPuts(_, _)
ApplyPuts(st, ps) ==
    IF ps = <<>> THEN st
    ELSE ApplyPuts(IF Head(ps).ok THEN PutItem(st, Head(ps).item) ELSE st, Tail(ps))

\* a store without the time of its writes
Untimed(st) == [k \in DOMAIN st |-> [st[k] EXCEPT !.last_updated = 0]]

\* C8: when two runs for different dates both got through, however their steps
\* interleaved, the store holds (up to the write times) what it holds after the
\* two runs one after the other, in either order, and every key a run wrote
\* carries its own date.
C8_DifferentDatesCommute ==
    \A a \in Runs, b \in Runs :
        (IsComplete(a) /\ IsComplete(b) /\ run[a].response.date # run[b].response.date) =>
                /\ Untimed(store) = Untimed(ApplyPuts(ApplyPuts(store0, puts[a]), puts[b]))
                /\ Untimed(store) = Untimed(ApplyPuts(ApplyPuts(store0, puts[b]), puts[a]))
                /\ \A n \in DOMAIN puts[a] :
                     /\ puts[a][n].item.date = run[a].response.timestamp
                     /\ puts[a][n].item.date # run[b].response.timestamp

C8_Witness ==
    \E a \in Runs, b \in Runs :
        /\ DailyComplete(a) /\ DailyComplete(b)
        /\ run[a].response.date # run[b].response.date
        /\ Len(puts[a]) >= 2 /\ Len(puts[b]) >= 2
        /\ puts[a][2].item.last_updated > puts[b][1].item.last_updated
        /\ puts[b][2].item.last_updated > puts[a][1].item.last_updated

C10_OneOutputPerRecordInOrder ==
    /\ xf.pc = "returned" =>
          /\ Len(xf.result) = Len(xf.records)
          /\ \A i \in DOMAIN xf.records : xf.result[i].recordId = xf.records[i].recordId
    /\ xf.pc = "mapping" =>
          /\ Len(xf.output) = xf.next - 1
          /\ \A i \in DOMAIN xf.output : xf.output[i].recordId = xf.records[i].recordId

\* a returned batch of three records with the three verdicts
C10_Witness ==
    /\ xf.pc = "returned"
    /\ Len(xf.records) >= 3
    /\ {xf.result[i].result : i \in DOMAIN xf.result} = {"Ok", "Dropped", "ProcessingFailed"}
    /\ \E i \in DOMAIN xf.records :
          xf.records[i].data = RawData(UnitOpenQuote) /\ xf.result[i].result = "ProcessingFailed"

(***************************************************************************)
(* C11-C20: the units of a batch and their decoding                        *)
(***************************************************************************)
\* decoding the record throws: its data cannot be read, or its text is not blank
\* and parseTsvToJson throws on it
Throws(record) ==
    \/ ~record.data.present
    \/ /\ Trim(record.data.text) # <<>>
       /\ parseTsvToJson(Trim(record.data.text)).threw

\* C11: the verdict and payload of a unit depend on its own data only: in a
\* returned batch each output is the one its record gets in a batch of its own, a
\* record whose decoding throws gets ProcessingFailed and no other record does.
C11_UnitsAreIsolated ==
    xf.pc = "returned" =>
        \A i \in DOMAIN xf.records :
            LET throws == Throws(xf.records[i])
            IN  /\ <<xf.result[i]>> = MapOne(xf.records[i])
                /\ throws <=> xf.result[i].result = "ProcessingFailed"
                /\ ~throws => xf.result[i].result \in {"Ok", "Dropped"}

\* a returned batch whose second record throws between two records that decode
C11_Witness ==
    /\ xf.pc = "returned"
    /\ Len(xf.records) >= 3
    /\ Throws(xf.records[2]) /\ xf.records[2].data.present
    /\ xf.result[1].result = "Ok" /\ xf.result[2].result = "ProcessingFailed"
    /\ xf.result[3].result = "Ok"

\* C12: a unit given the ProcessingFailed verdict carries, as its payload, the
\* data of its input record, unchanged.
C12_FailedUnitEchoesItsData ==
    /\ \A i \in DOMAIN xf.output :
          xf.output[i].result = "ProcessingFailed" => xf.output[i].data = xf.records[i].data
    /\ \A i \in DOMAIN xf.result :
          xf.result[i].result = "ProcessingFailed" => xf.result[i].data = xf.records[i].data

\* a returned batch with a failed record whose data is a text that does not parse
C12_Witness ==
    /\ xf.pc = "returned"
    /\ \E i \in DOMAIN xf.result :
          /\ xf.result[i].result = "ProcessingFailed"
          /\ xf.records[i].data.present
          /\ Len(xf.records[i].data.text) > 0
          /\ xf.result[i].data = RawData(xf.records[i].data.text)

\* a text without a character other than white space
BlankText(text) == \A k \in DOMAIN text : text[k] \in {" ", "\t", "\n", "\r"}

\* C13: a unit whose decoded text is empty or only white space gets the Dropped
\* verdict, never Ok and never ProcessingFailed.
C13_BlankUnitIsDropped ==
    /\ \A i \in DOMAIN xf.output :
          (xf.records[i].data.present /\ BlankText(xf.records[i].data.text)) =>
              xf.output[i].result = "Dropped"
    /\ \A i \in DOMAIN xf.result :
          (xf.records[i].data.present /\ BlankText(xf.records[i].data.text)) =>
              xf.result[i].result = "Dropped"

\* a returned batch with an empty unit and a unit of white space, both dropped
C13_Witness ==
    /\ xf.pc = "returned"
    /\ \E i \in DOMAIN xf.result, j \in DOMAIN xf.result :
          /\ xf.records[i].data = RawData(<<>>) /\ xf.result[i].result = "Dropped"
          /\ Len(xf.records[j].data.text) > 0 /\ BlankText(xf.records[j].data.text)
          /\ xf.result[j].result = "Dropped"

RECURSIVE TokensFrom(_, _)
\* the tab-separated tokens of a line, from position p on
TokensFrom(line, p) ==
    LET end == Find(line, p, {"\t"})
    IN  <<SubSeq(line, p, end - 1)>> \o
            (IF end > Len(line) THEN <<>> ELSE TokensFrom(line, end + 1))

\* a line without its line end
WithoutLineEnd(text) ==
    IF text # <<>> /\ text[Len(text)] = "\n" THEN SubSeq(text, 1, Len(text) - 1) ELSE text

\* the tokens of a unit: those of its line, split at every tab
Tokens(text) == TokensFrom(WithoutLineEnd(text), 1)

\* a unit of one line of plain tokens: no quote in it, no line end but the last
PlainUnit(data) ==
    /\ data.present
    /\ ~BlankText(data.text)
    /\ \A k \in DOMAIN WithoutLineEnd(data.text) :
          WithoutLineEnd(data.text)[k] \notin {"\"", "\n"}

\* the record of output o holds token j of the unit under field name j, for the
\* first min(k, N) tokens, and no other field but api_key
TokensInPlace(o, text) ==
    LET toks == Tokens(text)
        count == Min(Len(toks), Len(FIELD_NAMES))
    IN  /\ o.result = "Ok"
        /\ DOMAIN o.data.json = {FIELD_NAMES[j] : j \in 1..count} \cup {"api_key"}
        /\ \A j \in 1..count :
              o.data.json[FIELD_NAMES[j]] =
                  JsonStringify([v \in {"v"} |-> convertFieldType(FIELD_NAMES[j], toks[j])])["v"]

\* C14 as claimed: a unit of k tab-separated tokens decodes to a record that
\* holds token i under declared field i for every i below min(k, N), and holds no
\* declared field at position k or above.
C14_TokensKeepTheirPosition ==
    \A i \in DOMAIN xf.result :
        PlainUnit(xf.records[i].data) => TokensInPlace(xf.result[i], xf.records[i].data.text)

NumericFields == IntegerFields \cup FloatFields \cup {"timestamp"}

DecimalSeconds(tok) ==
    LET ds == DigitRun(tok)
        rest == SubSeq(tok, Len(ds) + 1, Len(tok))
    IN  /\ ds # <<>>
        /\ \/ rest = <<>>
           \/ /\ Len(rest) >= 2 /\ Head(rest) = "."
              /\ DigitRun(Tail(rest)) = Tail(rest)

\* floor(seconds * 1000) of decimal seconds, in exact arithmetic
ExactMillis(tok) == (parseFloat(tok).m * 1000) \div Pow10(parseFloat(tok).e)

\* C16 as claimed: for a unit whose first token is a timestamp in decimal seconds,
\* the timestamp of the delivered record is floor(seconds * 1000).
C16_TimestampIsFloorOfMillis ==
    \A i \in DOMAIN xf.result :
        (PlainUnit(xf.records[i].data) /\ DecimalSeconds(Tokens(xf.records[i].data.text)[1])) =>
            /\ xf.result[i].result = "Ok"
            /\ xf.result[i].data.json["timestamp"] =
                  Num(ExactMillis(Tokens(xf.records[i].data.text)[1]), 0)

\* a token no number can be read from: after white space and a sign it starts
\* neither with a digit nor with a point and a digit
NotANumber(tok) ==
    LET body == Unsigned(TrimStart(tok))
    IN  \/ body = <<>>
        \/ /\ ~IsDigit(Head(body))
           /\ ~(Len(body) >= 2 /\ Head(body) = "." /\ IsDigit(body[2]))

\* the positions of a unit's tokens that are present in a numeric field and are
\* not a number
BadNumbers(text) ==
    LET toks == Tokens(text)
    IN  {j \in 1..Min(Len(toks), Len(FIELD_NAMES)) :
            /\ FIELD_NAMES[j] \in IntegerFields \cup FloatFields
            /\ toks[j] \notin {<<>>, <<"-">>}
            /\ NotANumber(toks[j])}

\* C17: a token that is present in an integer or float field and is not a number
\* makes that field null and nothing else: the unit is delivered Ok, its other
\* fields are decoded as in any unit, and the other units of the batch get the
\* output they get on their own.
C17_BadNumberDegradesToNull ==
    xf.pc = "returned" =>
        \A i \in DOMAIN xf.records :
            LET bad == IF PlainUnit(xf.records[i].data)
                       THEN BadNumbers(xf.records[i].data.text) ELSE {}
            IN  bad # {} =>
                /\ xf.result[i].result = "Ok"
                /\ \A j \in bad : xf.result[i].data.json[FIELD_NAMES[j]] = Null
                /\ TokensInPlace(xf.result[i], xf.records[i].data.text)
                /\ \A o \in DOMAIN xf.records \ {i} :
                      <<xf.result[o]>> = MapOne(xf.records[o])

\* a returned pair: a unit with three bad numbers, delivered with the three
\* fields null and its status token's neighbour intact, and a sibling delivered
C17_Witness ==
    /\ xf.pc = "returned"
    /\ Len(xf.records) = 2
    /\ Cardinality(BadNumbers(xf.records[1].data.text)) = 3
    /\ xf.result[1].result = "Ok"
    /\ xf.result[1].data.json["sc_status"] = Null
    /\ xf.result[1].data.json["sc_bytes"] = Num(783, 0)
    /\ xf.records[2].data = RawData(UnitFull) /\ xf.result[2].result = "Ok"

\* C18: extractApiKey returns the value of the X-Api-Key header whatever the
\* casing of the header's name and wherever the header stands among the others:
\* every blob of other:1, <name>:abc and another:2, in any order, yields abc.
C18_KeyFoundInAnyCaseAndPlace ==
    (call.op = "extractApiKey" /\ call.done /\ call.name = "ordering") =>
        call.value = Str(<<"a", "b", "c">>)

\* extractApiKey has returned abc for other:1 / X-API-KEY:abc / another:2
C18_Witness ==
    /\ call.op = "extractApiKey" /\ call.done
    /\ call.text = <<"o", "t", "h", "e", "r", ":", "1", "\n", "X", "-", "A", "P", "I", "-", "K", "E", "Y", ":", "a", "b", "c", "\n", "a", "n", "o", "t", "h", "e", "r", ":", "2">>
    /\ call.value = Str(<<"a", "b", "c">>)

\* position e of a blob is the end of a header: the end of the blob, a newline, or
\* the start of the escape %0A
HeaderEnd(blob, e) ==
    \/ e = Len(blob) + 1
    \/ blob[e] = "\n"
    \/ e + 2 <= Len(blob) /\ SubSeq(blob, e, e + 2) = <<"%", "0", "A">>

\* the value of the first X-Api-Key header of a blob, as the blob holds it
KeyValueOf(blob) ==
    LET start == Len(HeaderPattern) +
                   (CHOOSE p \in 1..Len(blob) :
                       LiteralAt(blob, p) /\ \A q \in 1..(p - 1) : ~LiteralAt(blob, q))
        end == CHOOSE e \in start..(Len(blob) + 1) :
                   HeaderEnd(blob, e) /\ \A j \in start..(e - 1) : ~HeaderEnd(blob, j)
    IN  SubSeq(blob, start, end - 1)

\* C19 as claimed: when the value of the key header holds percent-escapes, the
\* identity returned is the whole value, percent-decoded.
C19_EscapedValueIsDecoded ==
    (call.op = "extractApiKey" /\ call.done /\ call.name = "escape") =>
        call.value = Str(decodeURIComponent(KeyValueOf(call.text)).text)

\* C20 as claimed: when the value of the key header holds a malformed
\* percent-escape, the identity returned is the raw value in full.
C20_MalformedValueIsReturnedRaw ==
    (/\ call.op = "extractApiKey" /\ call.done /\ call.name = "malformed"
     /\ decodeURIComponent(KeyValueOf(call.text)).threw) =>
        call.value = Str(KeyValueOf(call.text))

(***************************************************************************)
(* C21-C30: the usage handler, the billing query, the older rollup         *)
(***************************************************************************)
\* the step in which the Query of a request is answered and the handler returns 200
QueryAnswered ==
    rd.pc = "Querying" /\ rd'.pc = "Done" /\ rd'.response.statusCode = 200

\* the rows of identity apiKey whose date begins with datePrefix
RowsFor(st, apiKey, datePrefix) ==
    {st[k] : k \in {x \in DOMAIN st : x[1] = apiKey /\ BeginsWith(x[2], datePrefix)}}

\* the sum of one attribute over a set of rows
RECURSIVE SumOf(_, _)
SumOf(rows, name) ==
    IF rows = {} THEN 0
    ELSE LET row == CHOOSE x \in rows : TRUE
         IN  AttrOrZero(row, name) + SumOf(rows \ {row}, name)

\* the sum of avg_response_time_ms * request_count over a set of rows
RECURSIVE WeightedSumOf(_)
WeightedSumOf(rows) ==
    IF rows = {} THEN 0
    ELSE LET row == CHOOSE x \in rows : TRUE
         IN  AttrOrZero(row, "avg_response_time_ms") * AttrOrZero(row, "request_count")
               + WeightedSumOf(rows \ {row})

\* C21: the summary a request is answered with holds, over exactly the rows of
\* the table whose api_key is the request's identity and whose date begins with
\* its prefix, the sum of each of the seven counters, and an average response
\* time equal to the sum of avg_response_time_ms * request_count divided by the
\* summed request_count.
C21_SummaryIsTheSumOverMatchingRows ==
    [][QueryAnswered =>
        LET rows == RowsFor(store, rd.apiKey, rd.datePrefix)
            body == rd'.response.body
            count == SumOf(rows, "request_count")
        IN  /\ body.requestCount = count
            /\ body.totalBytesSent = SumOf(rows, "total_bytes_sent")
            /\ body.totalBytesReceived = SumOf(rows, "total_bytes_received")
            /\ body.successfulRequests = SumOf(rows, "successful_requests")
            /\ body.errorRequests = SumOf(rows, "error_requests")
            /\ body.cacheHits = SumOf(rows, "cache_hits")
            /\ body.cacheMisses = SumOf(rows, "cache_misses")
            /\ count > 0 =>
                 body.averageResponseTimeMs.n * count
                   = body.averageResponseTimeMs.d * WeightedSumOf(rows)]_vars

\* a request answered from two rows or more, of different response times
C21_Witness ==
    /\ rd.pc = "Done"
    /\ rd.response.statusCode = 200
    /\ rd.response.body.records >= 2
    /\ rd.response.body.averageResponseTimeMs.d > 1

\* the step in which the store answers the Query of a request (a rejected Query
\* is answered 500 by the catch)
StoreAnswered ==
    rd.pc = "Querying" /\ rd'.pc = "Done" /\ rd'.response.statusCode # 500

\* C22: a request whose identity and prefix no row of the table matches, the
\* empty table included, is answered with status 200 and a summary whose seven
\* counters, average response time, cache hit rate and record count are all 0.
C22_NoMatchingRowIsAllZeros ==
    [][(StoreAnswered /\ RowsFor(store, rd.apiKey, rd.datePrefix) = {}) =>
        /\ rd'.response.statusCode = 200
        /\ LET body == rd'.response.body
           IN  /\ body.requestCount = 0 /\ body.totalBytesSent = 0
               /\ body.totalBytesReceived = 0 /\ body.successfulRequests = 0
               /\ body.errorRequests = 0 /\ body.cacheHits = 0 /\ body.cacheMisses = 0
               /\ body.averageResponseTimeMs = [n |-> 0, d |-> 1]
               /\ body.cacheHitRate = [text |-> FALSE, hundredths |-> 0]
               /\ body.records = 0]_vars

\* a request answered from a table that holds rows, none of them matching
C22_Witness ==
    /\ rd.pc = "Done"
    /\ rd.response.statusCode = 200
    /\ rd.response.body.records = 0
    /\ store0 # EmptyStore
    /\ store = store0

\* C23: a request without api_key, or with neither date nor month, is answered
\* 400 by the step that receives it, and no Query is sent to the table for it.
C23_MissingParameterIsRejectedUnqueried ==
    (rd.pc # "none" /\ (~Truthy(rd.event.api_key)
                          \/ (~Truthy(rd.event.date) /\ ~Truthy(rd.event.month)))) =>
        /\ rd.pc = "Done"
        /\ rd.response.statusCode = 400
        /\ rd.queries = 0

\* a request that names an identity and no prefix
C23_Witness ==
    /\ rd.pc = "Done"
    /\ Truthy(rd.event.api_key)
    /\ rd.event.date = "" /\ rd.event.month = Undefined
    /\ rd.response.statusCode = 400

\* the day (YYYY-MM-DD) and the month (YYYY-MM) a date or a day prefix lies in
DayOf(date) == SubSeq(date, 1, 10)
MonthOf(date) == SubSeq(date, 1, 7)

\* two summaries agree on counters, average, cache hit rate and record count
SameSummary(a, b) ==
    /\ a.requestCount = b.requestCount
    /\ a.totalBytesSent = b.totalBytesSent
    /\ a.totalBytesReceived = b.totalBytesReceived
    /\ a.successfulRequests = b.successfulRequests
    /\ a.errorRequests = b.errorRequests
    /\ a.cacheHits = b.cacheHits
    /\ a.cacheMisses = b.cacheMisses
    /\ a.averageResponseTimeMs = b.averageResponseTimeMs
    /\ a.cacheHitRate = b.cacheHitRate
    /\ a.records = b.records

\* the table holds rows of identity apiKey in the month of day, all of that day
OnlyDayOfItsMonth(st, apiKey, day) ==
    /\ \E k \in DOMAIN st : k[1] = apiKey /\ MonthOf(k[2]) = MonthOf(day)
    /\ \A k \in DOMAIN st :
          (k[1] = apiKey /\ MonthOf(k[2]) = MonthOf(day)) => DayOf(k[2]) = day

\* C24: when the rows of an identity in some month are all of one day, the
\* request for that day is answered with the counters, average response time,
\* cache hit rate and record count that getUsage returns for the month.
C24_DayAndMonthAgreeOnASingleDay ==
    [][(QueryAnswered /\ Len(rd.datePrefix) = 10
          /\ OnlyDayOfItsMonth(store, rd.apiKey, rd.datePrefix)) =>
        SameSummary(rd'.response.body,
                    getUsage(store, rd.apiKey, MonthOf(rd.datePrefix)))]_vars

\* a day request answered from the one day its month holds, in a table with
\* rows of other months
C24_Witness ==
    /\ rd.pc = "Done"
    /\ rd.response.statusCode = 200
    /\ Len(rd.datePrefix) = 10
    /\ rd.response.body.records = 1
    /\ store = store0
    /\ OnlyDayOfItsMonth(store, rd.apiKey, rd.datePrefix)
    /\ \E k \in DOMAIN store : k[1] = rd.apiKey /\ MonthOf(k[2]) # MonthOf(rd.datePrefix)

\* the price per gigabyte the scripts README gives for a viewer country
DocumentedRate(country) ==
    CASE country \in {"US", "CA"} -> 850
      [] country \in {"GB", "DE"} -> 900
      [] country = "JP" -> 1000
      [] country = "AU" -> 1100
      [] OTHER -> 1200

RECURSIVE PricedByCountry(_, _)
PricedByCountry(log, idx) ==
    IF idx = {} THEN 0
    ELSE LET i == CHOOSE x \in idx : TRUE
         IN  log[i].gib * DocumentedRate(log[i].c_country) + PricedByCountry(log, idx \ {i})

\* C25: in every row of the billing query of the command line tool, the request
\* cost is 0.0001 per request and the bandwidth cost is the gigabytes sent to
\* each viewer country times that country's rate (0.085 US and CA, 0.090 GB and
\* DE, 0.100 JP, 0.110 AU, 0.120 elsewhere).
C25_BandwidthIsPricedByCountry ==
    (call.op = "buildBillingQuery" /\ call.done) =>
        \A k \in DOMAIN call.value :
            LET of == {i \in DOMAIN call.text : call.text[i].api_key = k}
            IN  /\ call.value[k].request_cost = Cardinality(of)
                /\ call.value[k].bandwidth_cost = PricedByCountry(call.text, of)

\* C26: when the older daily rollup handler has run to completion twice for the
\* same date on the same query result, each write of the second run added its
\* counters to what the first run left: request_count, total_bytes and
\* total_latency of every row the first run created are, after the second run,
\* twice their values after the first.
C26_LegacyRerunDoublesTheCounters ==
    \A a, b \in Runs :
        (/\ IsComplete(a) /\ IsComplete(b)
         /\ ExecOf(a) < ExecOf(b)
         /\ run[a].response.date = run[b].response.date
         /\ athena[ExecOf(a)].rows = athena[ExecOf(b)].rows) =>
            /\ Len(puts[b]) = Len(puts[a])
            /\ \A i \in DOMAIN puts[b] :
                  LET first == puts[a][i]
                      second == puts[b][i]
                  IN  \A f \in {"request_count", "total_bytes", "total_latency"} :
                        /\ second.after[f] = first.after[f] + second.adds[f]
                        /\ first.prior = NoItem => second.after[f] = 2 * first.after[f]
                        /\ store[KeyOf(second.item)][f] = second.after[f]

\* two completed runs of the same day on the same two result rows
C26_Witness ==
    \E a, b \in Runs :
        /\ IsComplete(a) /\ IsComplete(b)
        /\ ExecOf(a) < ExecOf(b)
        /\ run[a].response.date = run[b].response.date
        /\ athena[ExecOf(a)].rows = athena[ExecOf(b)].rows
        /\ Len(puts[b]) = 2
        /\ puts[a][1].prior = NoItem
        /\ puts[b][1].after.request_count > 0

\* C27: once a run has failed in its store loop, the table holds none of the
\* rows that run wrote: every key it wrote holds what it held before the write.
C27_FailedMergeLeavesNothingBehind ==
    \A r \in Runs :
        (IsFailed(r) /\ run[r].failedFrom = "Merging") =>
            \A i \in DOMAIN puts[r] :
                puts[r][i].ok => Lookup(store, KeyOf(puts[r][i].item)) = puts[r][i].prior

\* the number a cell of a result row stands for, 0 for a cell without a number
CellNumber(row, i) == OrZero(ParseInt10(At(row, i)))

\* the rollup invocation r got through a daily_usage run whose result holds
\* row for the identity of the request, the table held no row of that identity
\* before, and the request asks for the day of the run or for its month
RoundTrip(r, row) ==
    /\ DailyComplete(r)
    /\ \E i \in DOMAIN FetchedRows(r) : FetchedRows(r)[i] = row
    /\ row[1] = rd.apiKey
    /\ \A k \in DOMAIN store0 : k[1] # rd.apiKey
    /\ rd.datePrefix \in {run[r].response.date, MonthOf(run[r].response.date)}

KeyHeaderAt(blob, p) ==
    /\ LiteralAt(blob, p)
    /\ \/ p = 1
       \/ blob[p - 1] = "\n"
       \/ p > 3 /\ SubSeq(blob, p - 3, p - 1) = <<"%", "0", "A">>

\* C29: extractApiKey takes the identity from a header named exactly X-Api-Key:
\* a blob that holds X-Api-Key: only as the tail of a longer header name yields
\* null, and a blob that holds such a header and the X-Api-Key header yields the
\* value of the X-Api-Key header, wherever the longer-named header stands.
C29_OnlyTheExactHeaderNamesTheIdentity ==
    (call.op = "extractApiKey" /\ call.done /\ call.name = "lookalike") =>
        LET starts == {p \in 1..Len(call.text) : KeyHeaderAt(call.text, p)}
            first == CHOOSE p \in starts : \A q \in starts : p <= q
        IN  IF starts = {} THEN call.value = Null
            ELSE call.value =
                   Str(ValueRun(SubSeq(call.text, first + Len(HeaderPattern),
                                       Len(call.text))))

\* the table without the rows of every identity other than apiKey
OnlyRowsOf(st, apiKey) == [k \in {x \in DOMAIN st : x[1] = apiKey} |-> st[k]]

\* C30: no step of the usage handler changes the table, and the summary a
\* request for identity X is answered with is the summary of the table with all
\* rows of other identities removed: rows of other identities, whatever they
\* are, do not reach the result.
C30_OtherIdentitiesNeverReachTheSummary ==
    [][/\ rd' # rd => store' = store
       /\ QueryAnswered =>
            rd'.response.body
              = getUsage(OnlyRowsOf(store, rd.apiKey), rd.apiKey, rd.datePrefix)]_vars

\* a request answered from rows of its identity in a table that holds a row of
\* another identity under the same prefix
C30_Witness ==
    /\ rd.pc = "Done"
    /\ rd.response.statusCode = 200
    /\ rd.response.body.records >= 1
    /\ store = store0
    /\ \E k \in DOMAIN store : k[1] # rd.apiKey /\ BeginsWith(k[2], rd.datePrefix)

================================================================
